---- MODULE Spec2Model ----
(***************************************************************************)
(* Ingestion pipeline of parking-v2: the ticket store and its batch        *)
(* writer (ingest/db.ts), the cursor store (ingest/db.ts), the page        *)
(* sequencers (ingest/socrata.ts) and the run orchestration of the CLI     *)
(* (ingest/run.ts) and of the scheduler (scripts/scheduler.ts).            *)
(*                                                                         *)
(* Timestamps are instants counted from the epoch: an ISO string and the   *)
(* Date it parses to are the same instant, and ISO strings of one format   *)
(* compare as their instants do.                                           *)
(***************************************************************************)
EXTENDS Integers, Sequences, FiniteSets, TLC

\* ------------------------------------------------------------------ bounds
\* Longest list handed to upsertTickets in SpecWriter.
MaxLen == 3
\* upsertTickets calls in one behaviour of SpecWriter.
MaxCalls == 2
\* Changes (inserts, updates) the source datasets undergo in Spec.
MaxClock == 2
\* Runs (runBackfill, runSync) in one behaviour of Spec.
MaxRuns == 3
\* Rows the dataset holds from the start in SpecRetry.
MaxSrc == 3
\* Rows the dataset holds from the start in SpecPages.
MaxN == 5
\* Cycles the scheduler starts in one behaviour of SpecSched.
MaxCycles == 3

\* --------------------------------------------------------------- constants
\* config BATCH_INSERT_SIZE (500), scaled down: rows per insert statement.
BATCH_INSERT_SIZE == 2
\* config PAGE_SIZE (1000), scaled down: rows per page request.
PAGE_SIZE == 2
\* config DATASETS
Datasets == {"pvqr-7yc4", "nc67-uf89"}
\* Natural keys (summons numbers) that occur; NoKey is the absent/empty one.
Keys == {"A", "B"}
NoKey == ""
\* null
Null == 0 - 1
\* defaultCursor '1970-01-01T00:00:00Z'
Epoch == 0
\* config MAX_RETRIES
MAX_RETRIES == 5
\* config INITIAL_BACKOFF_MS
INITIAL_BACKOFF_MS == 1000
\* config DELAY_BETWEEN_PAGES_MS
DELAY_BETWEEN_PAGES_MS == 100
\* Source update timestamps the records of SpecWriter carry.
Timestamps == {1, 2}

VARIABLES
    store,      \* table parking_ticket: the set of its rows
    cursorTab,  \* table ingest_cursor: dataset -> last_soda_updated, Null = no row
    source,     \* the external datasets: dataset -> its rows in :id order
    clock,      \* the source's update clock (the newest :updated_at given out)
    run,        \* the run (runBackfill, runSync) in progress or just ended
    w,          \* the upsertTickets call in progress (SpecWriter)
    f,          \* the fetchWithRetry call in progress (SpecFetch)
    g,          \* the page generators invoked (SpecPages): invocation -> locals
    cur,        \* the getCursor/updateCursor calls in progress (SpecCursor)
    sched,      \* the scheduler process (SpecSched)
    mapCalls    \* the mapToTicketRow calls made (SpecMapper), in call order

vars == <<store, cursorTab, source, clock, run, w, f, g, cur, sched, mapCalls>>

\* ------------------------------------------------------------ ticket store
\* A canonical record (ParkingTicketRow): the natural key, the source tag, the
\* source update timestamp; source_dataset stands for the other non-key columns.
TicketRow(k, d, t) ==
    [summons_number |-> k, source_dataset |-> d, soda_updated_at |-> t]

\* An arbiter index on (summons_number, source_dataset) instead.
Conflicting_PerDataset(rows, r) ==
    {s \in rows : /\ s.summons_number = r.summons_number
                  /\ s.source_dataset = r.source_dataset}

\* ON CONFLICT (summons_number): the stored rows the arbiter index finds for r.
Conflicting(rows, r) ==
    {s \in rows : s.summons_number = r.summons_number}

\* The state of one INSERT ... ON CONFLICT statement: the table as the statement
\* sees it, the keys it inserted or updated, its row count, and whether it
\* raised "ON CONFLICT DO UPDATE command cannot affect row a second time".
StmtBegin(rows) ==
    [rows |-> rows, touched |-> {}, count |-> 0, err |-> FALSE]

\* A DO UPDATE without its WHERE ... IS DISTINCT FROM clause.
ApplyRow_NoWhere(st, r) ==
    LET c == Conflicting(st.rows, r) IN
    IF st.err THEN st
    ELSE IF r.summons_number \in st.touched
    THEN [st EXCEPT !.err = TRUE]
    ELSE [st EXCEPT !.rows = (@ \ c) \cup {r},
                    !.touched = @ \cup {r.summons_number},
                    !.count = @ + 1]

\* One proposed row of the VALUES list.
ApplyRow(st, r) ==
    LET c == Conflicting(st.rows, r) IN
    IF st.err THEN st
    ELSE IF c = {}
    THEN [st EXCEPT !.rows = @ \cup {r},
                    !.touched = @ \cup {r.summons_number},
                    !.count = @ + 1]
    ELSE IF r.summons_number \in st.touched
    THEN [st EXCEPT !.err = TRUE]
    ELSE IF \E s \in c : s.soda_updated_at # r.soda_updated_at
    THEN [st EXCEPT !.rows = (@ \ c) \cup {r},
                    !.touched = @ \cup {r.summons_number},
                    !.count = @ + 1]
    ELSE st

\* A slice that runs to the end of the list: rows.slice(i).
Slice_WholeRest(rows, i) == SubSeq(rows, i + 1, Len(rows))

\* rows.slice(i, i + BATCH_INSERT_SIZE), i counted from 0.
Slice(rows, i) ==
    SubSeq(rows, i + 1, IF i + BATCH_INSERT_SIZE < Len(rows)
                        THEN i + BATCH_INSERT_SIZE ELSE Len(rows))

\* db.query(query.text, query.values): the whole statement on the table `rows`.
RECURSIVE ExecRows(_, _, _)
ExecRows(st, batch, n) ==
    IF n > Len(batch) THEN st ELSE ExecRows(ApplyRow(st, batch[n]), batch, n + 1)

ExecStatement(rows, batch) == ExecRows(StmtBegin(rows), batch, 1)

\* ------------------------------------------------- upsertTickets (db.ts)
\* What a behaviour of SpecWriter may hand to upsertTickets.
RowValues ==
    {TicketRow(k, d, t) : k \in Keys, d \in Datasets, t \in Timestamps}

WriterInputs == UNION {[1..n -> RowValues] : n \in 0..MaxLen}

WriterIdle ==
    [pc |-> "idle", rows |-> <<>>, i |-> 0, totalInserted |-> 0, pos |-> 0,
     stmt |-> StmtBegin({}), attempts |-> <<>>, callNo |-> 0, store0 |-> {},
     again |-> FALSE, error |-> "none", batches |-> <<>>, counts |-> <<>>]

\* upsertTickets(rows) is entered: an empty list returns 0 at once.
Enter(rows, again) ==
    [WriterIdle EXCEPT !.pc = IF Len(rows) = 0 THEN "returned" ELSE "loop",
                       !.rows = rows,
                       !.callNo = w.callNo + 1,
                       !.store0 = store,
                       !.again = again]

UpsertCall ==
    /\ w.pc = "idle"
    /\ w.callNo < MaxCalls
    /\ \E rows \in WriterInputs : w' = Enter(rows, FALSE)
    /\ UNCHANGED store

\* The caller delivers the list of the call that just returned once more.
UpsertAgain ==
    /\ w.pc = "returned"
    /\ w.callNo < MaxCalls
    /\ w' = Enter(w.rows, TRUE)
    /\ UNCHANGED store

\* The caller has its result (the count or the error) and goes on.
UpsertDone ==
    /\ w.pc \in {"returned", "thrown"}
    /\ w' = [WriterIdle EXCEPT !.callNo = w.callNo]
    /\ UNCHANGED store

\* for (i = 0; i < rows.length; i += BATCH_INSERT_SIZE): the loop test; the
\* statement for the batch at i is sent, or the call returns totalInserted.
UpsertLoop ==
    /\ w.pc = "loop"
    /\ IF w.i < Len(w.rows)
       THEN w' = [w EXCEPT !.pc = "stmt", !.pos = 1, !.stmt = StmtBegin(store),
                           !.attempts = Append(@, w.i),
                           !.batches = Append(@, Slice(w.rows, w.i))]
       ELSE w' = [w EXCEPT !.pc = "returned"]
    /\ UNCHANGED store

\* The statement takes the next row of its VALUES list.
StmtRow ==
    /\ w.pc = "stmt"
    /\ w.pos <= Len(Slice(w.rows, w.i))
    /\ ~w.stmt.err
    /\ w' = [w EXCEPT !.stmt = ApplyRow(@, Slice(w.rows, w.i)[w.pos]),
                      !.pos = @ + 1]
    /\ UNCHANGED store

\* The statement ends and commits (pool.query runs it in its own transaction):
\* totalInserted += result.rowCount.
StmtCommit ==
    /\ w.pc = "stmt"
    /\ w.pos > Len(Slice(w.rows, w.i))
    /\ ~w.stmt.err
    /\ store' = w.stmt.rows
    /\ w' = [w EXCEPT !.pc = "loop", !.totalInserted = @ + w.stmt.count,
                      !.counts = Append(@, w.stmt.count),
                      !.i = @ + BATCH_INSERT_SIZE]

\* The statement raised the cardinality violation: it is rolled back and
\* upsertTickets rethrows.
StmtAbort ==
    /\ w.pc = "stmt"
    /\ w.stmt.err
    /\ w' = [w EXCEPT !.pc = "thrown", !.error = "cardinality_violation"]
    /\ UNCHANGED store

\* A call that ran all its batches in one transaction would lose them all.
StmtConnectionLost_RollsBackCall ==
    /\ w.pc = "stmt"
    /\ ~w.stmt.err
    /\ w' = [w EXCEPT !.pc = "thrown", !.error = "connection"]
    /\ store' = w.store0

\* The store is lost while the statement runs: db.query rejects, the statement
\* leaves nothing, upsertTickets rethrows.
StmtConnectionLost ==
    /\ w.pc = "stmt"
    /\ ~w.stmt.err
    /\ w' = [w EXCEPT !.pc = "thrown", !.error = "connection"]
    /\ UNCHANGED store

\* ------------------------------------------------ the source datasets
\* A raw record as the API returns it: the system fields :id and :updated_at
\* and the summons_number (NoKey when the field is absent or empty).
RawRow(n, k, t) == [id |-> n, summons_number |-> k, updated_at |-> t]

Range(seq) == {seq[n] : n \in 1..Len(seq)}

\* A row is added to a dataset; it gets the next :id and a new :updated_at.
SourceInsert ==
    /\ clock < MaxClock
    /\ \E d \in Datasets, k \in Keys \cup {NoKey} :
          source' = [source EXCEPT
                        ![d] = Append(@, RawRow(Len(@) + 1, k, clock + 1))]
    /\ clock' = clock + 1
    /\ run' = [run EXCEPT !.quiet = FALSE]
    /\ UNCHANGED <<store, cursorTab, w, f, g, cur, sched, mapCalls>>

\* A row of a dataset is updated; it keeps its :id and gets a new :updated_at.
SourceUpdate ==
    /\ clock < MaxClock
    /\ \E d \in Datasets :
          \E n \in 1..Len(source[d]) :
              source' = [source EXCEPT ![d][n].updated_at = clock + 1]
    /\ clock' = clock + 1
    /\ run' = [run EXCEPT !.quiet = FALSE]
    /\ UNCHANGED <<store, cursorTab, w, f, g, cur, sched, mapCalls>>

\* $order=:updated_at ASC (rows of one timestamp in :id order).
RECURSIVE OrderByUpdatedAt(_)
OrderByUpdatedAt(S) ==
    IF S = {} THEN <<>>
    ELSE LET first == CHOOSE r \in S : \A q \in S :
                          \/ r.updated_at < q.updated_at
                          \/ r.updated_at = q.updated_at /\ r.id <= q.id
         IN <<first>> \o OrderByUpdatedAt(S \ {first})

\* The request of a backfill page: $order=:id ASC, $limit, $offset.
buildBackfillUrl(d, offset) ==
    [dataset |-> d, order |-> ":id", where |-> [op |-> "none", value |-> Null],
     limit |-> PAGE_SIZE, offset |-> offset]

\* A request whose $where admits the rows at the cursor too.
buildIncrementalUrl_Inclusive(d, cursor, offset) ==
    [dataset |-> d, order |-> ":updated_at",
     where |-> [op |-> ">=", value |-> cursor],
     limit |-> PAGE_SIZE, offset |-> offset]

\* A request that filters from the epoch whatever the cursor is.
buildIncrementalUrl_FromEpoch(d, cursor, offset) ==
    [dataset |-> d, order |-> ":updated_at",
     where |-> [op |-> ">", value |-> Epoch],
     limit |-> PAGE_SIZE, offset |-> offset]

\* The request of an incremental page: $where=:updated_at > cursor,
\* $order=:updated_at ASC, $limit, $offset.
buildIncrementalUrl(d, cursor, offset) ==
    [dataset |-> d, order |-> ":updated_at",
     where |-> [op |-> ">", value |-> cursor],
     limit |-> PAGE_SIZE, offset |-> offset]

\* The rows of a dataset a $where clause admits.
Where(rows, where) ==
    {r \in rows : \/ where.op = "none"
                  \/ where.op = ">" /\ r.updated_at > where.value
                  \/ where.op = ">=" /\ r.updated_at >= where.value}

\* fetchPage(url) when the request succeeds: the rows the API answers with.
fetchPage(url) ==
    LET rows == IF url.order = ":id"
                THEN source[url.dataset]
                ELSE OrderByUpdatedAt(Where(Range(source[url.dataset]), url.where))
        last == IF url.offset + url.limit < Len(rows)
                THEN url.offset + url.limit ELSE Len(rows)
    IN SubSeq(rows, url.offset + 1, last)

\* ------------------------------------------------------------- row mapper
\* A mapper without the summons_number test.
mapToTicketRow_KeepAll(d, raw) ==
    <<TicketRow(raw.summons_number, d, raw.updated_at)>>

\* A mapper that also skips a record whose key the ticket table holds.
mapToTicketRow_SkipsStored(d, raw) ==
    IF \/ raw.summons_number = NoKey
       \/ \E s \in store : s.summons_number = raw.summons_number
    THEN <<>>
    ELSE <<TicketRow(raw.summons_number, d, raw.updated_at)>>

\* mapToTicketRow: no record (<<>>) for a raw record without summons_number.
mapToTicketRow(d, raw) ==
    IF raw.summons_number = NoKey
    THEN <<>>
    ELSE <<TicketRow(raw.summons_number, d, raw.updated_at)>>

\* A loop that pushes a record for every raw record, mapped or not.
RECURSIVE MapPage_PushesAll(_, _)
MapPage_PushesAll(d, page) ==
    IF page = <<>> THEN <<>>
    ELSE <<TicketRow(Head(page).summons_number, d, Head(page).updated_at)>>
             \o MapPage_PushesAll(d, Tail(page))

\* for (const raw of page) { mapped = mapToTicketRow(..); if (mapped) push }
RECURSIVE MapPage(_, _)
MapPage(d, page) ==
    IF page = <<>> THEN <<>>
    ELSE mapToTicketRow(d, Head(page)) \o MapPage(d, Tail(page))

\* A loop that keeps the earliest date instead of the latest.
RECURSIVE MaxDateFrom_Earliest(_, _, _)
MaxDateFrom_Earliest(rows, n, maxDate) ==
    IF n > Len(rows) THEN maxDate
    ELSE MaxDateFrom_Earliest(rows, n + 1,
                     IF maxDate = Null \/ rows[n].soda_updated_at < maxDate
                     THEN rows[n].soda_updated_at ELSE maxDate)

\* A getMaxUpdatedAt that takes the date of the first row.
getMaxUpdatedAt_First(rows) ==
    IF Len(rows) = 0 THEN Null ELSE rows[1].soda_updated_at

\* getMaxUpdatedAt: null for no rows, else the latest soda_updated_at.
RECURSIVE MaxDateFrom(_, _, _)
MaxDateFrom(rows, n, maxDate) ==
    IF n > Len(rows) THEN maxDate
    ELSE MaxDateFrom(rows, n + 1,
                     IF maxDate = Null \/ rows[n].soda_updated_at > maxDate
                     THEN rows[n].soda_updated_at ELSE maxDate)

getMaxUpdatedAt(rows) ==
    IF Len(rows) = 0 THEN Null ELSE MaxDateFrom(rows, 1, Null)

\* ------------------------------------------- upsertTickets as one call
\* The loop of upsertTickets from offset i on; the store is lost during the
\* statement of the batch at lostAt (Null: never).
RECURSIVE UpsertFrom(_, _, _, _, _)
UpsertFrom(tab, rows, i, total, lostAt) ==
    IF i >= Len(rows)
    THEN [rows |-> tab, total |-> total, error |-> "none"]
    ELSE IF i = lostAt
    THEN [rows |-> tab, total |-> total, error |-> "connection"]
    ELSE LET st == ExecStatement(tab, Slice(rows, i)) IN
         IF st.err
         THEN [rows |-> tab, total |-> total, error |-> "cardinality_violation"]
         ELSE UpsertFrom(st.rows, rows, i + BATCH_INSERT_SIZE,
                         total + st.count, lostAt)

upsertTickets(tab, rows, lostAt) == UpsertFrom(tab, rows, 0, 0, lostAt)

BatchOffsets(rows) ==
    {i \in 0..Len(rows) : i < Len(rows) /\ i % BATCH_INSERT_SIZE = 0}

\* ------------------------------------------------------------ cursor store
\* getCursor: the stored watermark; for a dataset without a row, the epoch,
\* inserted (ON CONFLICT DO NOTHING).
getCursor(tab, d) == IF tab[d] = Null THEN Epoch ELSE tab[d]

AfterGetCursor(tab, d) ==
    IF tab[d] = Null THEN [tab EXCEPT ![d] = Epoch] ELSE tab

\* An updateCursor that never moves the watermark back.
updateCursor_OnlyForward(tab, d, lastSodaUpdated) ==
    IF tab[d] # Null /\ tab[d] > lastSodaUpdated
    THEN tab
    ELSE [tab EXCEPT ![d] = lastSodaUpdated]

\* updateCursor: INSERT ... ON CONFLICT (dataset_id) DO UPDATE.
updateCursor(tab, d, lastSodaUpdated) == [tab EXCEPT ![d] = lastSodaUpdated]

\* -------------------------------------------------- runBackfill, runSync
\* A run: the locals of runBackfill/runSync and of the page generator it
\* drives (offset, page), and what the run did so far (requests, pages,
\* upserts, cursorCalls), with the tables as they were when it began.
NoOrig ==
    [store0 |-> {}, cursor |-> Null, cursorTab0 |-> [d \in Datasets |-> Null],
     pages |-> <<>>]

RunIdle ==
    [pc |-> "idle", kind |-> "none", variant |-> "none", ds |-> "none",
     cursor |-> Null, offset |-> 0, page |-> <<>>,
     totalRows |-> 0, totalUpserted |-> 0, maxUpdatedAt |-> Null,
     error |-> "none", n |-> 0,
     requests |-> <<>>, pages |-> <<>>, upserts |-> 0, cursorCalls |-> <<>>,
     cursorTab0 |-> [d \in Datasets |-> Null], store0 |-> {},
     quiet |-> FALSE, repeat |-> FALSE, retry |-> FALSE, orig |-> NoOrig]

Ended == run.pc \in {"idle", "done", "failed"}

\* The run begins. repeat: it is a runSync right after a runSync of the same
\* dataset that completed, the source unchanged since that one began. retry:
\* it is a runSync right after a runSync of the same dataset that a failed
\* batch write aborted, the source unchanged since that one began; orig is
\* then what the aborted run began with and what it fetched.
Begin(kind, variant, d) ==
    LET retry == /\ kind = "sync" /\ run.kind = "sync" /\ run.pc = "failed"
                 /\ run.error = "upsert" /\ run.ds = d /\ run.quiet IN
    [RunIdle EXCEPT !.pc = "fetch", !.kind = kind, !.variant = variant,
                    !.ds = d, !.n = run.n + 1,
                    !.cursorTab0 = cursorTab, !.store0 = store,
                    !.quiet = TRUE,
                    !.repeat = /\ kind = "sync" /\ run.kind = "sync"
                               /\ run.pc = "done" /\ run.ds = d /\ run.quiet,
                    !.retry = retry,
                    !.orig = IF retry
                             THEN [store0 |-> run.store0, cursor |-> run.cursor,
                                   cursorTab0 |-> run.cursorTab0,
                                   pages |-> run.pages]
                             ELSE NoOrig]

\* runBackfill(datasetId) of the CLI.
RunBackfill ==
    /\ Ended
    /\ run.n < MaxRuns
    /\ \E d \in Datasets : run' = Begin("backfill", "cli", d)
    /\ UNCHANGED <<store, cursorTab, source, clock, w, f, g, cur, sched, mapCalls>>

\* A runSync whose scheduler variant reads from the epoch, whatever the cursor.
RunSync_SchedFromEpoch ==
    /\ Ended
    /\ run.n < MaxRuns
    /\ \E d \in Datasets, v \in {"cli", "sched"} :
          /\ run' = [Begin("sync", v, d) EXCEPT !.cursor = IF v = "sched" THEN Epoch
                                                       ELSE getCursor(cursorTab, d)]
          /\ cursorTab' = AfterGetCursor(cursorTab, d)
    /\ UNCHANGED <<store, source, clock, w, f, g, cur, sched, mapCalls>>

\* runSync(datasetId) of the CLI or of the scheduler: const cursor = await
\* getCursor(datasetId).
RunSync ==
    /\ Ended
    /\ run.n < MaxRuns
    /\ \E d \in Datasets, v \in {"cli", "sched"} :
          /\ run' = [Begin("sync", v, d) EXCEPT !.cursor = getCursor(cursorTab, d)]
          /\ cursorTab' = AfterGetCursor(cursorTab, d)
    /\ UNCHANGED <<store, source, clock, w, f, g, cur, sched, mapCalls>>

\* getCursor rejects (the store cannot be reached): runSync throws before its
\* try block.
RunSyncCursorFails ==
    /\ Ended
    /\ run.n < MaxRuns
    /\ \E d \in Datasets, v \in {"cli", "sched"} :
          run' = [Begin("sync", v, d) EXCEPT !.pc = "failed", !.error = "getCursor"]
    /\ UNCHANGED <<store, cursorTab, source, clock, w, f, g, cur, sched, mapCalls>>

Request ==
    IF run.kind = "backfill"
    THEN buildBackfillUrl(run.ds, run.offset)
    ELSE buildIncrementalUrl(run.ds, run.cursor, run.offset)

\* The generator requests the page at offset and gets it: an empty page ends
\* the sequence, any other page is yielded.
FetchPage ==
    /\ run.pc = "fetch"
    /\ LET page == fetchPage(Request) IN
       run' = [run EXCEPT !.requests = Append(@, Request),
                          !.pages = Append(@, page),
                          !.page = page,
                          !.pc = IF Len(page) = 0 THEN "advance" ELSE "page"]
    /\ UNCHANGED <<store, cursorTab, source, clock, w, f, g, cur, sched, mapCalls>>

\* A run that wrote its running maximum to the cursor on its way out of a
\* failed fetch (updateCursor in a finally block).
FetchFails_AdvancesCursor ==
    /\ run.pc = "fetch"
    /\ run' = [run EXCEPT !.requests = Append(@, Request),
                          !.pc = "failed", !.error = "fetch",
                          !.cursorCalls = IF run.maxUpdatedAt # Null
                                          THEN Append(@, run.maxUpdatedAt) ELSE @]
    /\ cursorTab' = IF run.maxUpdatedAt # Null
                    THEN updateCursor(cursorTab, run.ds, run.maxUpdatedAt)
                    ELSE cursorTab
    /\ UNCHANGED <<store, source, clock, w, f, g, cur, sched, mapCalls>>

\* fetchWithRetry gave up: the generator throws into the for-await loop.
FetchFails ==
    /\ run.pc = "fetch"
    /\ run' = [run EXCEPT !.requests = Append(@, Request),
                          !.pc = "failed", !.error = "fetch"]
    /\ UNCHANGED <<store, cursorTab, source, clock, w, f, g, cur, sched, mapCalls>>

\* The generator resumes after the loop body: offset += page.length; a full
\* page is followed by another request, a short one ends the sequence.
Resume(r) ==
    [r EXCEPT !.offset = @ + Len(r.page),
              !.pc = IF Len(r.page) = PAGE_SIZE THEN "fetch" ELSE "advance"]

\* A loop body that wrote its running maximum to the cursor when the batch
\* write failed.
ProcessPage_AdvancesOnFailure ==
    /\ run.pc = "page"
    /\ LET ticketRows == MapPage(run.ds, run.page)
           pageMaxUpdated == getMaxUpdatedAt(ticketRows)
           maxUpdatedAt ==
               IF /\ pageMaxUpdated # Null
                  /\ (run.maxUpdatedAt = Null \/ pageMaxUpdated > run.maxUpdatedAt)
               THEN pageMaxUpdated ELSE run.maxUpdatedAt
       IN IF Len(ticketRows) = 0
          THEN run' = Resume(run) /\ UNCHANGED <<store, cursorTab>>
          ELSE \E lostAt \in BatchOffsets(ticketRows) \cup {Null} :
                  LET res == upsertTickets(store, ticketRows, lostAt) IN
                  /\ store' = res.rows
                  /\ cursorTab' = IF res.error = "none" THEN cursorTab
                                  ELSE updateCursor(cursorTab, run.ds, maxUpdatedAt)
                  /\ run' = IF res.error = "none"
                            THEN Resume([run EXCEPT
                                     !.maxUpdatedAt = maxUpdatedAt,
                                     !.upserts = @ + 1,
                                     !.totalRows = @ + Len(run.page),
                                     !.totalUpserted = @ + res.total])
                            ELSE [run EXCEPT
                                     !.maxUpdatedAt = maxUpdatedAt,
                                     !.upserts = @ + 1,
                                     !.pc = "failed", !.error = "upsert"]
    /\ UNCHANGED <<source, clock, w, f, g, cur, sched, mapCalls>>

\* A loop body that logs the error of a failed batch write and goes on with
\* the next page.
ProcessPage_GoesOnAfterFailure ==
    /\ run.pc = "page"
    /\ LET ticketRows == MapPage(run.ds, run.page)
           pageMaxUpdated == getMaxUpdatedAt(ticketRows)
           maxUpdatedAt ==
               IF /\ pageMaxUpdated # Null
                  /\ (run.maxUpdatedAt = Null \/ pageMaxUpdated > run.maxUpdatedAt)
               THEN pageMaxUpdated ELSE run.maxUpdatedAt
       IN IF Len(ticketRows) = 0
          THEN run' = Resume(run) /\ UNCHANGED store
          ELSE \E lostAt \in BatchOffsets(ticketRows) \cup {Null} :
                  LET res == upsertTickets(store, ticketRows, lostAt) IN
                  /\ store' = res.rows
                  /\ run' = Resume([run EXCEPT
                                     !.maxUpdatedAt = maxUpdatedAt,
                                     !.upserts = @ + 1,
                                     !.error = IF res.error = "none" THEN @
                                               ELSE "upsert",
                                     !.totalRows = @ + Len(run.page),
                                     !.totalUpserted = @ + res.total])
    /\ UNCHANGED <<cursorTab, source, clock, w, f, g, cur, sched, mapCalls>>

\* A loop body that leaves the loop at a page in which nothing was mapped.
ProcessPage_StopsOnEmptyPage ==
    /\ run.pc = "page"
    /\ LET ticketRows == MapPage(run.ds, run.page)
           pageMaxUpdated == getMaxUpdatedAt(ticketRows)
           maxUpdatedAt ==
               IF /\ pageMaxUpdated # Null
                  /\ (run.maxUpdatedAt = Null \/ pageMaxUpdated > run.maxUpdatedAt)
               THEN pageMaxUpdated ELSE run.maxUpdatedAt
       IN IF Len(ticketRows) = 0
          THEN run' = [run EXCEPT !.pc = "advance"] /\ UNCHANGED store
          ELSE \E lostAt \in BatchOffsets(ticketRows) \cup {Null} :
                  LET res == upsertTickets(store, ticketRows, lostAt) IN
                  /\ store' = res.rows
                  /\ run' = IF res.error = "none"
                            THEN Resume([run EXCEPT
                                     !.maxUpdatedAt = maxUpdatedAt,
                                     !.upserts = @ + 1,
                                     !.totalRows = @ + Len(run.page),
                                     !.totalUpserted = @ + res.total])
                            ELSE [run EXCEPT
                                     !.maxUpdatedAt = maxUpdatedAt,
                                     !.upserts = @ + 1,
                                     !.pc = "failed", !.error = "upsert"]
    /\ UNCHANGED <<cursorTab, source, clock, w, f, g, cur, sched, mapCalls>>

\* The loop body for the page yielded: map, skip the page when nothing was
\* mapped, else track the maximum and upsert.
ProcessPage ==
    /\ run.pc = "page"
    /\ LET ticketRows == MapPage(run.ds, run.page)
           pageMaxUpdated == getMaxUpdatedAt(ticketRows)
           maxUpdatedAt ==
               IF /\ pageMaxUpdated # Null
                  /\ (run.maxUpdatedAt = Null \/ pageMaxUpdated > run.maxUpdatedAt)
               THEN pageMaxUpdated ELSE run.maxUpdatedAt
       IN IF Len(ticketRows) = 0
          THEN run' = Resume(run) /\ UNCHANGED store
          ELSE \E lostAt \in BatchOffsets(ticketRows) \cup {Null} :
                  LET res == upsertTickets(store, ticketRows, lostAt) IN
                  /\ store' = res.rows
                  /\ run' = IF res.error = "none"
                            THEN Resume([run EXCEPT
                                     !.maxUpdatedAt = maxUpdatedAt,
                                     !.upserts = @ + 1,
                                     !.totalRows = @ + Len(run.page),
                                     !.totalUpserted = @ + res.total])
                            ELSE [run EXCEPT
                                     !.maxUpdatedAt = maxUpdatedAt,
                                     !.upserts = @ + 1,
                                     !.pc = "failed", !.error = "upsert"]
    /\ UNCHANGED <<cursorTab, source, clock, w, f, g, cur, sched, mapCalls>>

\* After the loop: if (maxUpdatedAt) await updateCursor(datasetId, maxUpdatedAt).
Advance ==
    /\ run.pc = "advance"
    /\ IF run.maxUpdatedAt # Null
       THEN /\ cursorTab' = updateCursor(cursorTab, run.ds, run.maxUpdatedAt)
            /\ run' = [run EXCEPT !.pc = "done",
                                  !.cursorCalls = Append(@, run.maxUpdatedAt)]
       ELSE /\ run' = [run EXCEPT !.pc = "done"]
            /\ UNCHANGED cursorTab
    /\ UNCHANGED <<store, source, clock, w, f, g, cur, sched, mapCalls>>

\* updateCursor rejects (the store cannot be reached).
AdvanceFails ==
    /\ run.pc = "advance"
    /\ run.maxUpdatedAt # Null
    /\ run' = [run EXCEPT !.pc = "failed", !.error = "updateCursor",
                          !.cursorCalls = Append(@, run.maxUpdatedAt)]
    /\ UNCHANGED <<store, cursorTab, source, clock, w, f, g, cur, sched, mapCalls>>

\* ------------------------------------------------ fetchWithRetry (socrata.ts)
\* What one fetch(url, options) ends in: a rejection (a network-level error,
\* status 0 here) or a response with its status and its Retry-After header
\* (NoHeader: headers.get returns null).
NoHeader == "null"

RetryAfterHeaders == {NoHeader, "0", "2"}

NetworkError == [status |-> 0, retryAfter |-> NoHeader]

Outcomes ==
    {NetworkError, [status |-> 200, retryAfter |-> NoHeader],
     [status |-> 404, retryAfter |-> NoHeader]}
    \cup {[status |-> s, retryAfter |-> h] : s \in {429, 503}, h \in RetryAfterHeaders}

\* response.ok
Ok(status) == status >= 200 /\ status <= 299

\* parseInt of the header values that occur.
parseInt(h) == IF h = "0" THEN 0 ELSE IF h = "2" THEN 2 ELSE Null

\* The locals of fetchWithRetry, the outcomes of its requests so far (log), the
\* waits it made (the arguments of sleep), and how it ended.
FetchIdle ==
    [pc |-> "idle", attempt |-> 0, backoff |-> 0, lastError |-> Null,
     log |-> <<>>, waits |-> <<>>, error |-> Null]

\* A sleep that leaves backoff as it is.
Sleep_Constant(fs, ms) ==
    [fs EXCEPT !.pc = "sleep", !.waits = Append(@, ms)]

\* await sleep(ms); backoff *= 2 (the loop goes on when the sleep is over).
Sleep(fs, ms) ==
    [fs EXCEPT !.pc = "sleep", !.waits = Append(@, ms), !.backoff = @ * 2]

\* A catch that keeps the first error it saw.
Catch_KeepsFirstError(fs, status) ==
    LET fe == [fs EXCEPT !.lastError = IF @ = Null THEN status ELSE @] IN
    IF fs.attempt < MAX_RETRIES
    THEN Sleep(fe, fe.backoff)
    ELSE [fe EXCEPT !.pc = "loop", !.attempt = @ + 1]

\* A catch that rethrows at once.
Catch_Rethrows(fs, status) ==
    [fs EXCEPT !.lastError = status, !.pc = "thrown", !.error = status]

\* catch (error): lastError = error; a sleep of backoff if attempts are left.
Catch(fs, status) ==
    LET fe == [fs EXCEPT !.lastError = status] IN
    IF fs.attempt < MAX_RETRIES
    THEN Sleep(fe, fe.backoff)
    ELSE [fe EXCEPT !.pc = "loop", !.attempt = @ + 1]

\* A loop body that waits for the computed backoff whatever the header says.
Handle_IgnoresRetryAfter(fs, out) ==
    LET fl == [fs EXCEPT !.log = Append(@, out)] IN
    IF out = NetworkError THEN Catch(fl, 0)
    ELSE IF (out.status = 429 \/ out.status >= 500) /\ fs.attempt < MAX_RETRIES
    THEN Sleep(fl, fl.backoff)
    ELSE IF ~Ok(out.status) THEN Catch(fl, out.status)
    ELSE [fl EXCEPT !.pc = "returned"]

\* The body of the loop for the outcome of its fetch.
Handle(fs, out) ==
    LET fl == [fs EXCEPT !.log = Append(@, out)] IN
    IF out = NetworkError THEN Catch(fl, 0)
    ELSE IF (out.status = 429 \/ out.status >= 500) /\ fs.attempt < MAX_RETRIES
    THEN Sleep(fl, IF out.retryAfter # NoHeader
                   THEN parseInt(out.retryAfter) * 1000 ELSE fl.backoff)
    ELSE IF ~Ok(out.status) THEN Catch(fl, out.status)
    ELSE [fl EXCEPT !.pc = "returned"]

\* fetchWithRetry(url, options) is called with the default retries.
FetchWithRetry ==
    /\ f.pc = "idle"
    /\ f' = [FetchIdle EXCEPT !.pc = "loop", !.backoff = INITIAL_BACKOFF_MS]
    /\ UNCHANGED <<store, cursorTab, source, clock, run, w, g, cur, sched, mapCalls>>

\* attempt <= retries: one fetch and what the loop body does with its outcome.
FetchAttempt ==
    /\ f.pc = "loop"
    /\ f.attempt <= MAX_RETRIES
    /\ \E out \in Outcomes : f' = Handle(f, out)
    /\ UNCHANGED <<store, cursorTab, source, clock, run, w, g, cur, sched, mapCalls>>

\* The sleep is over: the next iteration of the loop.
FetchWake ==
    /\ f.pc = "sleep"
    /\ f' = [f EXCEPT !.pc = "loop", !.attempt = @ + 1]
    /\ UNCHANGED <<store, cursorTab, source, clock, run, w, g, cur, sched, mapCalls>>

\* The loop is left: throw lastError.
FetchGiveUp ==
    /\ f.pc = "loop"
    /\ f.attempt > MAX_RETRIES
    /\ f' = [f EXCEPT !.pc = "thrown", !.error = f.lastError]
    /\ UNCHANGED <<store, cursorTab, source, clock, run, w, g, cur, sched, mapCalls>>

\* ------------------------------------ backfillPages, incrementalPages
Invocations == {1, 2}

GenIdle ==
    [pc |-> "idle", mode |-> "none", ds |-> "none", cursor |-> Null,
     offset |-> 0, page |-> <<>>, requests |-> <<>>, pages |-> <<>>,
     yielded |-> <<>>, delays |-> <<>>]

\* const url = buildBackfillUrl(datasetId, offset) / buildIncrementalUrl(
\* datasetId, cursor, offset).
GenUrl(gs) ==
    IF gs.mode = "backfill"
    THEN buildBackfillUrl(gs.ds, gs.offset)
    ELSE buildIncrementalUrl(gs.ds, gs.cursor, gs.offset)

\* A generator that goes on until a page comes back empty.
AfterYield_UntilEmpty(gs) ==
    [gs EXCEPT !.offset = @ + Len(gs.page),
               !.pc = "sleep",
               !.delays = Append(@, [after |-> Len(gs.requests),
                                     ms |-> DELAY_BETWEEN_PAGES_MS])]

\* A generator without the polite delay.
AfterYield_NoDelay(gs) ==
    [gs EXCEPT !.offset = @ + Len(gs.page),
               !.pc = IF Len(gs.page) = PAGE_SIZE THEN "request" ELSE "ended"]

\* After the yield: offset += page.length; after a full page
\* await sleep(DELAY_BETWEEN_PAGES_MS) and go on, else hasMore = false.
AfterYield(gs) ==
    IF Len(gs.page) = PAGE_SIZE
    THEN [gs EXCEPT !.offset = @ + Len(gs.page),
                    !.pc = "sleep",
                    !.delays = Append(@, [after |-> Len(gs.requests),
                                          ms |-> DELAY_BETWEEN_PAGES_MS])]
    ELSE [gs EXCEPT !.offset = @ + Len(gs.page), !.pc = "ended"]

\* backfillPages(datasetId) or incrementalPages(datasetId, cursor) is invoked
\* and asked for its first page.
GenInvoke ==
    /\ \E i \in Invocations, mode \in {"backfill", "sync"}, c \in {Epoch, 1} :
          /\ g[i].pc = "idle"
          /\ mode = "backfill" => c = Epoch
          /\ g' = [g EXCEPT ![i] = [GenIdle EXCEPT !.pc = "request",
                                       !.mode = mode, !.ds = "pvqr-7yc4",
                                       !.cursor = IF mode = "sync" THEN c ELSE Null]]
    /\ UNCHANGED <<store, cursorTab, source, clock, run, w, f, cur, sched, mapCalls>>

\* const page = await fetchPage(url): an empty page ends the generator, any
\* other page is yielded.
GenFetch ==
    /\ \E i \in Invocations :
          /\ g[i].pc = "request"
          /\ LET page == fetchPage(GenUrl(g[i])) IN
             g' = [g EXCEPT ![i].requests = Append(@, GenUrl(g[i])),
                            ![i].pages = Append(@, page),
                            ![i].page = page,
                            ![i].yielded = IF Len(page) = 0 THEN @
                                           ELSE Append(@, page),
                            ![i].pc = IF Len(page) = 0 THEN "ended" ELSE "yielded"]
    /\ UNCHANGED <<store, cursorTab, source, clock, run, w, f, cur, sched, mapCalls>>

\* A generator that catches the error of fetchPage, yields what it has of the
\* page (nothing) and goes on.
GenFetchFails_YieldsPartial ==
    /\ \E i \in Invocations :
          /\ g[i].pc = "request"
          /\ g' = [g EXCEPT ![i].requests = Append(@, GenUrl(g[i])),
                            ![i].page = <<>>,
                            ![i].yielded = Append(@, <<>>),
                            ![i].pc = "yielded"]
    /\ UNCHANGED <<store, cursorTab, source, clock, run, w, f, cur, sched, mapCalls>>

\* fetchPage throws (fetchWithRetry gave up): the generator throws.
GenFetchFails ==
    /\ \E i \in Invocations :
          /\ g[i].pc = "request"
          /\ g' = [g EXCEPT ![i].requests = Append(@, GenUrl(g[i])),
                            ![i].pc = "failed"]
    /\ UNCHANGED <<store, cursorTab, source, clock, run, w, f, cur, sched, mapCalls>>

\* A generator whose offset is one variable shared by all invocations.
GenResume_SharedOffset ==
    /\ \E i \in Invocations :
          /\ g[i].pc = "yielded"
          /\ g' = [j \in Invocations |->
                      IF j = i THEN AfterYield(g[i])
                      ELSE [g[j] EXCEPT !.offset = g[i].offset + Len(g[i].page)]]
    /\ UNCHANGED <<store, cursorTab, source, clock, run, w, f, cur, sched, mapCalls>>

\* The consumer asks for the next page: the generator goes on after its yield.
GenResume ==
    /\ \E i \in Invocations :
          /\ g[i].pc = "yielded"
          /\ g' = [g EXCEPT ![i] = AfterYield(g[i])]
    /\ UNCHANGED <<store, cursorTab, source, clock, run, w, f, cur, sched, mapCalls>>

\* A delay whose promise is never resolved.
GenWake_NeverWakes ==
    /\ \E i \in Invocations :
          /\ g[i].pc = "sleep"
          /\ g' = g
    /\ UNCHANGED <<store, cursorTab, source, clock, run, w, f, cur, sched, mapCalls>>

\* The polite delay is over: the next iteration of while (hasMore).
GenWake ==
    /\ \E i \in Invocations :
          /\ g[i].pc = "sleep"
          /\ g' = [g EXCEPT ![i].pc = "request"]
    /\ UNCHANGED <<store, cursorTab, source, clock, run, w, f, cur, sched, mapCalls>>

\* ------------------------------ getCursor, updateCursor statement by statement
\* Callers of the cursor store that run at the same time (each statement is
\* its own transaction: pool.query).
Callers == {1, 2}

\* Watermarks handed to updateCursor.
Watermarks == {Epoch, 1, 2}

\* A call: the statement it is at, its arguments, the rows its SELECT
\* returned (Null: none), what it returned, and for updateCursor the
\* watermark the dataset had before the statement.
CallIdle ==
    [pc |-> "idle", op |-> "none", ds |-> "none", arg |-> Null,
     rows |-> Null, result |-> Null, before |-> Null, error |-> "none"]

\* An INSERT without the ON CONFLICT clause: the unique index on dataset_id
\* raises unique_violation when the dataset has a row.
InsertDefault_NoConflictClause(tab, d) ==
    IF tab[d] # Null
    THEN [tab |-> tab, error |-> "unique_violation"]
    ELSE [tab |-> [tab EXCEPT ![d] = Epoch], error |-> "none"]

\* INSERT INTO ingest_cursor VALUES (d, defaultCursor, NOW()) ON CONFLICT
\* (dataset_id) DO NOTHING.
InsertDefault(tab, d) == [tab |-> AfterGetCursor(tab, d), error |-> "none"]

\* getCursor(datasetId) is called.
GetCursorCall ==
    /\ \E i \in Callers, d \in Datasets :
          /\ cur[i].pc = "idle"
          /\ cur' = [cur EXCEPT ![i] = [CallIdle EXCEPT !.pc = "select",
                                           !.op = "getCursor", !.ds = d]]
    /\ UNCHANGED <<store, cursorTab, source, clock, run, w, f, g, sched, mapCalls>>

\* SELECT last_soda_updated FROM ingest_cursor WHERE dataset_id = $1; with a
\* row the call returns its value.
GetCursorSelect ==
    /\ \E i \in Callers :
          /\ cur[i].pc = "select"
          /\ cur' = [cur EXCEPT
                        ![i].rows = cursorTab[cur[i].ds],
                        ![i].pc = IF cursorTab[cur[i].ds] = Null
                                  THEN "insert" ELSE "returned",
                        ![i].result = cursorTab[cur[i].ds]]
    /\ UNCHANGED <<store, cursorTab, source, clock, run, w, f, g, sched, mapCalls>>

\* result.rows.length === 0: the default cursor is inserted and returned.
GetCursorInsert ==
    /\ \E i \in Callers :
          /\ cur[i].pc = "insert"
          /\ LET ins == InsertDefault(cursorTab, cur[i].ds) IN
             /\ cursorTab' = ins.tab
             /\ cur' = IF ins.error = "none"
                       THEN [cur EXCEPT ![i].pc = "returned",
                                        ![i].result = Epoch]
                       ELSE [cur EXCEPT ![i].pc = "thrown",
                                        ![i].error = ins.error]
    /\ UNCHANGED <<store, source, clock, run, w, f, g, sched, mapCalls>>

\* updateCursor(datasetId, lastSodaUpdated): one statement.
UpdateCursorCall ==
    /\ \E i \in Callers, d \in Datasets, v \in Watermarks :
          /\ cur[i].pc = "idle"
          /\ cursorTab' = updateCursor(cursorTab, d, v)
          /\ cur' = [cur EXCEPT ![i] = [CallIdle EXCEPT !.pc = "returned",
                                           !.op = "updateCursor", !.ds = d,
                                           !.arg = v,
                                           !.before = cursorTab[d]]]
    /\ UNCHANGED <<store, source, clock, run, w, f, g, sched, mapCalls>>

\* The caller has its result and goes on.
CallDone ==
    /\ \E i \in Callers :
          /\ cur[i].pc \in {"returned", "thrown"}
          /\ cur' = [cur EXCEPT ![i] = CallIdle]
    /\ UNCHANGED <<store, cursorTab, source, clock, run, w, f, g, sched, mapCalls>>

\* --------------------------------------------------- scheduler (main)
\* Object.values(DATASETS): the order runSyncAll goes through the datasets.
DatasetOrder == <<"pvqr-7yc4", "nc67-uf89">>

\* The scheduler process: where main is, its options and environment, the
\* module variable pool of db.ts (none: null, ending: pool.end() awaited),
\* the interval timer, the signal handlers, the cycles started so far, and
\* how the process ended.
SchedIdle ==
    [pc |-> "start", runOnce |-> FALSE, dbUrl |-> TRUE, pool |-> "none",
     timer |-> FALSE, handlers |-> FALSE, signalled |-> FALSE,
     httpSent |-> FALSE, cycles |-> <<>>, exit |-> "none"]

\* A cycle (runCycle): the dataset runSyncAll is at, the statement runSync is
\* at, whether this runSync has written a page (maxUpdatedAt is set), the
\* datasets runSync was called for, and the error runCycle caught.
NewCycle(kind) ==
    [kind |-> kind, pc |-> "sync", di |-> 1, step |-> "cursor",
     wrote |-> FALSE, called |-> {DatasetOrder[1]}, err |-> "none",
     afterSignal |-> sched.signalled]

InFlight(c) == c.pc \in {"sync", "stats"}

Alive == sched.pc \notin {"start", "exited"}

\* closePool is entered (pool.end() is awaited) and is left (pool = null).
ClosePoolBegin(pool) == IF pool = "open" THEN "ending" ELSE pool

ClosePoolEnd(pool) == IF pool = "ending" THEN "closed" ELSE pool

\* process.exit, or the death of the process: what is in flight is cut.
CutCycles(cycles) ==
    [n \in 1..Len(cycles) |->
        IF InFlight(cycles[n]) THEN [cycles[n] EXCEPT !.pc = "cut"]
        ELSE cycles[n]]

\* runSync has returned: runSyncAll calls it for the next dataset, or
\* returns and runCycle goes on to getTableStats.
NextDataset(c) ==
    IF c.di < Len(DatasetOrder)
    THEN [c EXCEPT !.di = @ + 1, !.step = "cursor", !.wrote = FALSE,
                   !.called = @ \cup {DatasetOrder[c.di + 1]}]
    ELSE [c EXCEPT !.pc = "stats"]

\* The try block of runSync threw: catch logs, runSync returns its counts.
RunSyncCatches(c, e) == NextDataset(c)

\* getCursor threw: it stands before the try block, so runSync and
\* runSyncAll reject and the catch of runCycle logs the error.
CursorThrows(c, e) ==
    [c EXCEPT !.pc = "done", !.err = e]

\* main() begins: parseArgs, then await runCycle().
SchedStart ==
    /\ sched.pc = "start"
    /\ \E once \in BOOLEAN, url \in BOOLEAN :
          sched' = [sched EXCEPT !.pc = "initial", !.runOnce = once,
                                 !.dbUrl = url,
                                 !.cycles = <<NewCycle("initial")>>]
    /\ UNCHANGED <<store, cursorTab, source, clock, run, w, f, g, cur, mapCalls>>

\* A main that arms the timer whatever options.runOnce says.
InitialDone_IgnoresOnce ==
    /\ sched.pc = "initial"
    /\ sched.cycles[1].pc = "done"
    /\ sched' = [sched EXCEPT !.pc = "armed", !.timer = TRUE,
                              !.handlers = TRUE]
    /\ UNCHANGED <<store, cursorTab, source, clock, run, w, f, g, cur, mapCalls>>

\* The initial runCycle has returned: with --once closePool is awaited, else
\* setInterval arms the timer and the signal handlers are registered.
InitialDone ==
    /\ sched.pc = "initial"
    /\ sched.cycles[1].pc = "done"
    /\ sched' = IF sched.runOnce
                THEN [sched EXCEPT !.pc = "closing",
                                   !.pool = ClosePoolBegin(@)]
                ELSE [sched EXCEPT !.pc = "armed", !.timer = TRUE,
                                   !.handlers = TRUE]
    /\ UNCHANGED <<store, cursorTab, source, clock, run, w, f, g, cur, mapCalls>>

\* --once: closePool has returned, process.exit(0).
OnceExit ==
    /\ sched.pc = "closing"
    /\ sched' = [sched EXCEPT !.pc = "exited", !.exit = "code0",
                              !.pool = ClosePoolEnd(@),
                              !.cycles = CutCycles(@)]
    /\ UNCHANGED <<store, cursorTab, source, clock, run, w, f, g, cur, mapCalls>>

\* The interval has passed: the callback of setInterval calls runCycle. The
\* timer does not wait for the promise of an earlier callback.
TimerFires ==
    /\ Alive
    /\ sched.timer
    /\ Len(sched.cycles) < MaxCycles
    /\ sched' = [sched EXCEPT !.cycles = Append(@, NewCycle("timer"))]
    /\ UNCHANGED <<store, cursorTab, source, clock, run, w, f, g, cur, mapCalls>>

\* A shutdown that leaves the timer armed.
Shutdown_KeepsTimer ==
    /\ sched.pc = "armed"
    /\ sched.handlers
    /\ sched' = [sched EXCEPT !.pc = "shutdown", !.signalled = TRUE,
                              !.pool = ClosePoolBegin(@)]
    /\ UNCHANGED <<store, cursorTab, source, clock, run, w, f, g, cur, mapCalls>>

\* SIGINT or SIGTERM with the handlers registered: shutdown clears the
\* interval and awaits closePool.
Shutdown ==
    /\ sched.pc = "armed"
    /\ sched.handlers
    /\ sched' = [sched EXCEPT !.pc = "shutdown", !.signalled = TRUE,
                              !.timer = FALSE,
                              !.pool = ClosePoolBegin(@)]
    /\ UNCHANGED <<store, cursorTab, source, clock, run, w, f, g, cur, mapCalls>>

\* closePool has returned in shutdown: process.exit(0).
ShutdownDone ==
    /\ sched.pc = "shutdown"
    /\ sched' = [sched EXCEPT !.pc = "exited", !.exit = "code0",
                              !.pool = ClosePoolEnd(@),
                              !.cycles = CutCycles(@)]
    /\ UNCHANGED <<store, cursorTab, source, clock, run, w, f, g, cur, mapCalls>>

\* SIGINT or SIGTERM before the handlers are registered (during the initial
\* cycle, or in --once mode): the process dies by the signal.
SignalDefault ==
    /\ Alive
    /\ ~sched.handlers
    /\ sched' = [sched EXCEPT !.pc = "exited", !.exit = "signal",
                              !.cycles = CutCycles(@)]
    /\ UNCHANGED <<store, cursorTab, source, clock, run, w, f, g, cur, mapCalls>>

\* runSync: const cursor = await getCursor(datasetId). getPool throws without
\* DATABASE_URL; a pool that is ending rejects the query.
CycleGetCursor ==
    /\ Alive
    /\ \E n \in 1..Len(sched.cycles) :
          LET c == sched.cycles[n] IN
          /\ c.pc = "sync" /\ c.step = "cursor"
          /\ sched' =
                IF ~sched.dbUrl
                THEN [sched EXCEPT !.cycles[n] = CursorThrows(c, "config")]
                ELSE IF sched.pool = "ending"
                THEN [sched EXCEPT !.cycles[n] = CursorThrows(c, "store")]
                ELSE [sched EXCEPT !.pool = "open",
                                   !.cycles[n].step = "fetch"]
    /\ UNCHANGED <<store, cursorTab, source, clock, run, w, f, g, cur, mapCalls>>

\* getCursor rejects (the store cannot be reached).
CycleGetCursorFails ==
    /\ Alive
    /\ sched.dbUrl
    /\ \E n \in 1..Len(sched.cycles) :
          LET c == sched.cycles[n] IN
          /\ c.pc = "sync" /\ c.step = "cursor"
          /\ sched' = [sched EXCEPT
                          !.pool = IF @ = "none" THEN "open" ELSE @,
                          !.cycles[n] = CursorThrows(c, "store")]
    /\ UNCHANGED <<store, cursorTab, source, clock, run, w, f, g, cur, mapCalls>>

\* incrementalPages requests a page and gets it: a page with rows goes to the
\* loop body, an empty page ends the sequence.
CycleFetch ==
    /\ Alive
    /\ \E n \in 1..Len(sched.cycles), rows \in BOOLEAN :
          LET c == sched.cycles[n] IN
          /\ c.pc = "sync" /\ c.step = "fetch"
          /\ sched' = [sched EXCEPT
                          !.httpSent = TRUE,
                          !.cycles[n].step = IF rows THEN "upsert"
                                             ELSE "advance"]
    /\ UNCHANGED <<store, cursorTab, source, clock, run, w, f, g, cur, mapCalls>>

\* fetchWithRetry gave up: the try block of runSync catches the error.
CycleFetchFails ==
    /\ Alive
    /\ \E n \in 1..Len(sched.cycles) :
          LET c == sched.cycles[n] IN
          /\ c.pc = "sync" /\ c.step = "fetch"
          /\ sched' = [sched EXCEPT
                          !.httpSent = TRUE,
                          !.cycles[n] = RunSyncCatches(c, "fetch")]
    /\ UNCHANGED <<store, cursorTab, source, clock, run, w, f, g, cur, mapCalls>>

\* upsertTickets(ticketRows): a full page is followed by another request, a
\* short one ends the sequence.
CycleUpsert ==
    /\ Alive
    /\ \E n \in 1..Len(sched.cycles), full \in BOOLEAN :
          LET c == sched.cycles[n] IN
          /\ c.pc = "sync" /\ c.step = "upsert"
          /\ sched' =
                IF sched.pool = "ending"
                THEN [sched EXCEPT !.cycles[n] = RunSyncCatches(c, "store")]
                ELSE [sched EXCEPT
                         !.cycles[n].wrote = TRUE,
                         !.cycles[n].step = IF full THEN "fetch"
                                            ELSE "advance"]
    /\ UNCHANGED <<store, cursorTab, source, clock, run, w, f, g, cur, mapCalls>>

\* if (maxUpdatedAt) await updateCursor(datasetId, maxUpdatedAt); runSync
\* returns.
CycleAdvance ==
    /\ Alive
    /\ \E n \in 1..Len(sched.cycles) :
          LET c == sched.cycles[n] IN
          /\ c.pc = "sync" /\ c.step = "advance"
          /\ sched' =
                IF c.wrote /\ sched.pool = "ending"
                THEN [sched EXCEPT !.cycles[n] = RunSyncCatches(c, "store")]
                ELSE [sched EXCEPT !.cycles[n] = NextDataset(c)]
    /\ UNCHANGED <<store, cursorTab, source, clock, run, w, f, g, cur, mapCalls>>

\* upsertTickets or updateCursor rejects (the store cannot be reached): the
\* try block of runSync catches the error.
CycleStoreFails ==
    /\ Alive
    /\ \E n \in 1..Len(sched.cycles) :
          LET c == sched.cycles[n] IN
          /\ c.pc = "sync"
          /\ \/ c.step = "upsert"
             \/ c.step = "advance" /\ c.wrote
          /\ sched' = [sched EXCEPT !.cycles[n] = RunSyncCatches(c, "store")]
    /\ UNCHANGED <<store, cursorTab, source, clock, run, w, f, g, cur, mapCalls>>

\* runCycle after runSyncAll: getTableStats, whose error runCycle catches;
\* runCycle returns.
CycleStats ==
    /\ Alive
    /\ \E n \in 1..Len(sched.cycles), ok \in BOOLEAN :
          LET c == sched.cycles[n] IN
          /\ c.pc = "stats"
          /\ sched.pool = "ending" => ~ok
          /\ sched' = [sched EXCEPT
                          !.cycles[n].pc = "done",
                          !.cycles[n].err = IF ok THEN "none" ELSE "stats"]
    /\ UNCHANGED <<store, cursorTab, source, clock, run, w, f, g, cur, mapCalls>>

\* ---------------------------------------------------------- specifications
Init ==
    /\ store = {}
    /\ cursorTab = [d \in Datasets |-> Null]
    /\ source = [d \in Datasets |-> <<>>]
    /\ clock = 0
    /\ run = RunIdle
    /\ w = WriterIdle
    /\ f = FetchIdle
    /\ g = [i \in Invocations |-> GenIdle]
    /\ cur = [i \in Callers |-> CallIdle]
    /\ sched = SchedIdle
    /\ mapCalls = <<>>

\* The single writer alone: any lists, any order.
WriterNext ==
    /\ \/ UpsertCall
       \/ UpsertAgain
       \/ UpsertDone
       \/ UpsertLoop
       \/ StmtRow
       \/ StmtCommit
       \/ StmtAbort
       \/ StmtConnectionLost
    /\ UNCHANGED <<cursorTab, source, clock, run, f, g, cur, sched, mapCalls>>

SpecWriter == Init /\ [][WriterNext]_vars

\* Runs of the CLI and of the scheduler, one after another, over sources that
\* grow and change.
Next ==
    \/ RunBackfill
    \/ RunSync
    \/ RunSyncCursorFails
    \/ FetchPage
    \/ FetchFails
    \/ ProcessPage
    \/ Advance
    \/ AdvanceFails
    \/ SourceInsert
    \/ SourceUpdate

Spec == Init /\ [][Next]_vars

\* runSync runs, one after another, of a dataset that holds its rows from the
\* start and does not change: rows may share a natural key and an update
\* timestamp, the ticket table may hold a row already, the cursor may be set.
LoadedSources ==
    UNION {[1..n -> (Keys \cup {NoKey}) \X Timestamps] : n \in 0..MaxSrc}

Loaded(kts) == [n \in 1..Len(kts) |-> RawRow(n, kts[n][1], kts[n][2])]

InitRetry ==
    /\ \E kts \in LoadedSources :
          source = [d \in Datasets |->
                       IF d = "pvqr-7yc4" THEN Loaded(kts) ELSE <<>>]
    /\ store \in {{}, {TicketRow("A", "nc67-uf89", 1)}}
    /\ \E c \in {Null, 1} :
          cursorTab = [d \in Datasets |-> IF d = "pvqr-7yc4" THEN c ELSE Null]
    /\ clock = 0
    /\ run = RunIdle
    /\ w = WriterIdle
    /\ f = FetchIdle
    /\ g = [i \in Invocations |-> GenIdle]
    /\ cur = [i \in Callers |-> CallIdle]
    /\ sched = SchedIdle
    /\ mapCalls = <<>>

RetryNext ==
    \/ RunSync
    \/ FetchPage
    \/ ProcessPage
    \/ Advance

SpecRetry == InitRetry /\ [][RetryNext]_vars

\* runSync runs of a dataset whose rows are updated while a run is under way:
\* the rows all carry the first timestamp at the start, and an update gives
\* a row the next one, which moves it to the end of the ordering.
DriftSources ==
    UNION {[1..n -> (Keys \cup {NoKey}) \X {1}] : n \in 0..MaxSrc}

InitDrift ==
    /\ \E kts \in DriftSources :
          source = [d \in Datasets |->
                       IF d = "pvqr-7yc4" THEN Loaded(kts) ELSE <<>>]
    /\ store = {}
    /\ cursorTab = [d \in Datasets |-> Null]
    /\ clock = 1
    /\ run = RunIdle
    /\ w = WriterIdle
    /\ f = FetchIdle
    /\ g = [i \in Invocations |-> GenIdle]
    /\ cur = [i \in Callers |-> CallIdle]
    /\ sched = SchedIdle
    /\ mapCalls = <<>>

DriftNext ==
    \/ RunSync
    \/ FetchPage
    \/ ProcessPage
    \/ Advance
    \/ SourceUpdate

SpecDrift == InitDrift /\ [][DriftNext]_vars

\* mapToTicketRow called twice, on any dataset identity and raw record, with
\* writes to the ticket table and to the cursor before and between the calls.
InitMapper ==
    /\ store = {}
    /\ cursorTab = [d \in Datasets |-> Null]
    /\ source = [d \in Datasets |-> <<>>]
    /\ clock = 0
    /\ run = RunIdle
    /\ w = WriterIdle
    /\ f = FetchIdle
    /\ g = [i \in Invocations |-> GenIdle]
    /\ cur = [i \in Callers |-> CallIdle]
    /\ sched = SchedIdle
    /\ mapCalls = <<>>

\* const mapped = mapToTicketRow(datasetId, raw); the call is recorded with
\* the ticket table and the cursor table it was made in.
MapCall ==
    /\ Len(mapCalls) < 2
    /\ \E d \in Datasets, k \in Keys \cup {NoKey}, t \in Timestamps :
          LET raw == RawRow(1, k, t) IN
          mapCalls' = Append(mapCalls,
                         [d |-> d, raw |-> raw,
                          out |-> mapToTicketRow(d, raw),
                          store |-> store, cursorTab |-> cursorTab])
    /\ UNCHANGED <<store, cursorTab, source, clock, run, w, f, g, cur, sched>>

\* await upsertTickets([row]) returns: a row of key "A" is written.
MapperStoreWrite ==
    /\ \E d \in Datasets, t \in Timestamps :
          store' = upsertTickets(store, <<TicketRow("A", d, t)>>, Null).rows
    /\ UNCHANGED <<cursorTab, source, clock, run, w, f, g, cur, sched, mapCalls>>

\* await updateCursor("pvqr-7yc4", t) returns.
MapperCursorWrite ==
    /\ \E t \in Timestamps :
          cursorTab' = updateCursor(cursorTab, "pvqr-7yc4", t)
    /\ UNCHANGED <<store, source, clock, run, w, f, g, cur, sched, mapCalls>>

MapperNext ==
    \/ MapCall
    \/ MapperStoreWrite
    \/ MapperCursorWrite

SpecMapper == InitMapper /\ [][MapperNext]_vars

\* One fetchWithRetry call against a server that answers as it likes.
FetchNext ==
    \/ FetchWithRetry
    \/ FetchAttempt
    \/ FetchWake
    \/ FetchGiveUp

SpecFetch == Init /\ [][FetchNext]_vars

\* Two invocations of the page generators, interleaved, over a dataset that
\* holds its rows from the start and does not change.
PageSources == UNION {[1..n -> {"A"} \X Timestamps] : n \in 0..MaxN}

InitPages ==
    /\ \E kts \in PageSources :
          source = [d \in Datasets |->
                       IF d = "pvqr-7yc4" THEN Loaded(kts) ELSE <<>>]
    /\ store = {}
    /\ cursorTab = [d \in Datasets |-> Null]
    /\ clock = 0
    /\ run = RunIdle
    /\ w = WriterIdle
    /\ f = FetchIdle
    /\ g = [i \in Invocations |-> GenIdle]
    /\ cur = [i \in Callers |-> CallIdle]
    /\ sched = SchedIdle
    /\ mapCalls = <<>>

PagesNext ==
    \/ GenInvoke
    \/ GenFetch
    \/ GenFetchFails
    \/ GenResume
    \/ GenWake

SpecPages == InitPages /\ [][PagesNext]_vars

\* The generators and the runs that consume them, on a source that does not
\* change. The generators are driven by a consumer that asks for every page,
\* or the CLI and the scheduler run, one run after another; every step that
\* can be taken is taken in the end (the event loop runs each continuation
\* that is ready, a request is answered or fails, a timer fires).
RunsNext ==
    \/ RunBackfill
    \/ RunSync
    \/ RunSyncCursorFails
    \/ FetchPage
    \/ FetchFails
    \/ ProcessPage
    \/ Advance
    \/ AdvanceFails

LiveNext ==
    \/ run.pc = "idle" /\ PagesNext
    \/ (\A i \in Invocations : g[i].pc = "idle") /\ RunsNext

\* A request is answered or fails, a page yielded is consumed, a timer
\* fires, a loop body and the statements after the loop run to their end.
LiveSpec ==
    /\ InitPages
    /\ [][LiveNext]_vars
    /\ WF_vars(GenFetchFails \/ GenFetch)
    /\ WF_vars(GenResume)
    /\ WF_vars(GenWake)
    /\ WF_vars(FetchFails \/ FetchPage)
    /\ WF_vars(ProcessPage)
    /\ WF_vars(AdvanceFails \/ Advance)

\* Callers of getCursor and updateCursor at the same time, on a cursor table
\* that starts without rows.
InitCursor ==
    /\ store \in {{}, {TicketRow("A", "nc67-uf89", 1)}}
    /\ cursorTab = [d \in Datasets |-> Null]
    /\ source = [d \in Datasets |-> <<>>]
    /\ clock = 0
    /\ run = RunIdle
    /\ w = WriterIdle
    /\ f = FetchIdle
    /\ g = [i \in Invocations |-> GenIdle]
    /\ cur = [i \in Callers |-> CallIdle]
    /\ sched = SchedIdle
    /\ mapCalls = <<>>

CursorNext ==
    \/ GetCursorCall
    \/ GetCursorSelect
    \/ GetCursorInsert
    \/ UpdateCursorCall
    \/ CallDone

SpecCursor == InitCursor /\ [][CursorNext]_vars

\* The scheduler process from its start to its exit, with signals, store
\* failures and fetch failures at any moment.
SchedNext ==
    \/ SchedStart
    \/ InitialDone
    \/ OnceExit
    \/ TimerFires
    \/ Shutdown
    \/ ShutdownDone
    \/ SignalDefault
    \/ CycleGetCursor
    \/ CycleGetCursorFails
    \/ CycleFetch
    \/ CycleFetchFails
    \/ CycleUpsert
    \/ CycleAdvance
    \/ CycleStoreFails
    \/ CycleStats

SpecSched == Init /\ [][SchedNext]_vars

\* ---------------------------------------------------- claims on the writer
\* The natural keys a list delivers, and the lists that deliver one twice.
KeysOf(rows) == {rows[n].summons_number : n \in 1..Len(rows)}

HasDuplicateKey(rows) ==
    \E m, n \in 1..Len(rows) :
        m < n /\ rows[m].summons_number = rows[n].summons_number

\* The row a StmtRow step is about to take.
NextRow == Slice(w.rows, w.i)[w.pos]

RowTaken ==
    /\ w.pc = "stmt" /\ w'.pc = "stmt" /\ w'.pos = w.pos + 1

\* The table after the statements of batches 0..k-1 of `rows` ran on `rows0`.
RECURSIVE AfterBatches(_, _, _)
AfterBatches(rows0, rows, k) ==
    IF k = 0 THEN rows0
    ELSE ExecStatement(AfterBatches(rows0, rows, k - 1),
                       Slice(rows, (k - 1) * BATCH_INSERT_SIZE)).rows

\* C6 (as claimed): the first of two calls with one list adds at most one row
\* per distinct natural key; the second call, with the same list, adds no row
\* and returns 0 rows changed.
C6_SecondCallChangesNothing ==
    /\ w.pc = "returned" =>
         Cardinality(store) - Cardinality(w.store0) <= Cardinality(KeysOf(w.rows))
    /\ (w.pc = "returned" /\ w.again) =>
         /\ Cardinality(store) = Cardinality(w.store0)
         /\ w.totalInserted = 0

\* C7: a proposed row whose natural key is stored leaves the stored row as it
\* is and is not counted when its soda_updated_at equals the stored one;
\* otherwise the stored row becomes the proposed row (every non-key column)
\* and is counted.
C7_ConflictRule ==
    [][(RowTaken /\ ~w'.stmt.err) =>
          \A s \in Conflicting(w.stmt.rows, NextRow) :
              IF s.soda_updated_at = NextRow.soda_updated_at
              THEN /\ w'.stmt.rows = w.stmt.rows
                   /\ w'.stmt.count = w.stmt.count
              ELSE /\ w'.stmt.rows = (w.stmt.rows \ {s}) \cup {NextRow}
                   /\ w'.stmt.count = w.stmt.count + 1]_vars

\* C7 witness: a committed statement met one stored key with an equal
\* timestamp (row left alone) and one with another timestamp (row replaced,
\* source tag included), and counted the second only.
C7_Witness ==
    /\ w.pc = "loop" /\ w.i = BATCH_INSERT_SIZE /\ w.callNo > 1
    /\ w.totalInserted = 1
    /\ w.rows[1] \in w.store0 /\ w.rows[1] \in store
    /\ \E s \in w.store0 :
          /\ s.summons_number = w.rows[2].summons_number
          /\ s.soda_updated_at # w.rows[2].soda_updated_at
          /\ s.source_dataset # w.rows[2].source_dataset
          /\ s \notin store
    /\ w.rows[2] \in store

\* C8: the ticket table holds at most one row per summons_number.
C8_OneRowPerKey ==
    \A r, s \in store : r.summons_number = s.summons_number => r = s

\* C8 witness: a key stored from one dataset was delivered again by the other
\* dataset, and the table holds one row for it.
C8_Witness ==
    /\ w.pc = "returned"
    /\ \E r \in w.store0, s \in store :
          /\ r.summons_number = s.summons_number
          /\ r.source_dataset # s.source_dataset
          /\ Cardinality(Conflicting(store, s)) = 1

\* C9 (as claimed): a call whose list delivers a natural key twice, in one
\* batch or in two, succeeds with exactly one stored row for that key (the
\* store staying reachable throughout).
C9_DuplicatesInInputSucceed ==
    (/\ w.pc \in {"returned", "thrown"}
     /\ w.error # "connection"
     /\ HasDuplicateKey(w.rows)) =>
        /\ w.pc = "returned"
        /\ \A k \in KeysOf(w.rows) :
              Cardinality({s \in store : s.summons_number = k}) = 1

\* C10: when the statement of batch k fails, upsertTickets throws that error,
\* the table is the one batches 0..k-1 left, and the statements sent are
\* exactly those of batches 0..k.
C10_FailedBatch ==
    w.pc = "thrown" =>
        LET k == Len(w.attempts) - 1 IN
        /\ k >= 0
        /\ w.attempts = [n \in 1..(k + 1) |-> (n - 1) * BATCH_INSERT_SIZE]
        /\ store = AfterBatches(w.store0, w.rows, k)
        /\ w.error \in {"cardinality_violation", "connection"}
        /\ w.error = "cardinality_violation" =>
              ExecStatement(store, Slice(w.rows, k * BATCH_INSERT_SIZE)).err

\* C10 witness: batch 1 failed after batch 0 had been committed and had
\* changed the table.
C10_Witness ==
    /\ w.pc = "thrown"
    /\ w.attempts = <<0, BATCH_INSERT_SIZE>>
    /\ store # w.store0

\* ------------------------------------------------------ claims on the runs
\* The raw records the run fetched so far, page after page.
RECURSIVE Concat(_)
Concat(pages) ==
    IF pages = <<>> THEN <<>> ELSE Head(pages) \o Concat(Tail(pages))

FetchedRows == Concat(run.pages)

\* The fetched records that carry a natural key, and the latest of a set of
\* timestamps.
KeyedFetched == {r \in Range(FetchedRows) : r.summons_number # NoKey}

Latest(S) == CHOOSE t \in S : \A u \in S : t >= u

\* The watermark of the run's dataset as a reader finds it (no row: the epoch).
Watermark(tab) == getCursor(tab, run.ds)

\* No cursor row that existed when the run began has changed, and the
\* watermark of the run's dataset reads as it did.
CursorAsBefore ==
    /\ \A d \in Datasets : run.cursorTab0[d] # Null => cursorTab[d] = run.cursorTab0[d]
    /\ Watermark(cursorTab) = Watermark(run.cursorTab0)

\* The second of two runSync runs of one dataset has completed, the first
\* having completed too, and the source has not changed since the first began.
SecondSyncDone == run.pc = "done" /\ run.repeat /\ run.quiet

\* C1 (as claimed): the second run fetches zero rows, writes nothing, and
\* leaves the persisted cursor and the stored row count unchanged, whatever the
\* source holds.
C1_SecondSyncFetchesNothing ==
    SecondSyncDone =>
        /\ FetchedRows = <<>>
        /\ run.upserts = 0 /\ store = run.store0
        /\ cursorTab = run.cursorTab0
        /\ Cardinality(store) = Cardinality(run.store0)

\* C1 (amended): the second run fetches exactly the source rows newer than the
\* cursor, all of them rows without a natural key (none if the source has no
\* such row); it writes nothing, calls updateCursor never, and leaves the
\* persisted cursor and the stored row count unchanged.
C1_SecondSyncWritesNothing ==
    SecondSyncDone =>
        /\ Range(FetchedRows) =
              {r \in Range(source[run.ds]) : r.updated_at > run.cursor}
        /\ KeyedFetched = {}
        /\ run.upserts = 0 /\ store = run.store0
        /\ run.cursorCalls = <<>> /\ cursorTab = run.cursorTab0
        /\ Cardinality(store) = Cardinality(run.store0)

\* C1 witness: the second run of a dataset whose newest row has no natural
\* key, the first run having stored a row and advanced the cursor.
C1_Witness ==
    /\ SecondSyncDone
    /\ FetchedRows # <<>>
    /\ store # {}
    /\ cursorTab[run.ds] > Epoch

\* C2: no step of any run, successful or failed, of either kind, lowers the
\* persisted watermark of a dataset: updateCursor writes a value greater than
\* or equal to the one stored before it.
C2_WatermarkNeverDecreases ==
    [][\A d \in Datasets :
          cursorTab[d] # Null =>
              cursorTab'[d] # Null /\ cursorTab'[d] >= cursorTab[d]]_vars

\* C2 witness: a runBackfill that followed a run which had advanced the
\* watermark wrote a later watermark over it.
C2_Witness ==
    /\ run.pc = "done" /\ run.kind = "backfill"
    /\ run.cursorTab0[run.ds] > Epoch
    /\ Len(run.cursorCalls) = 1
    /\ cursorTab[run.ds] > run.cursorTab0[run.ds]

\* C3 (as claimed): a run that completes and maps at least one record calls
\* updateCursor exactly once, with the latest source update timestamp of the
\* records it observed (fetched).
C3_CursorIsLatestFetched ==
    (run.pc = "done" /\ KeyedFetched # {}) =>
        /\ run.cursorCalls =
              <<Latest({r.updated_at : r \in Range(FetchedRows)})>>
        /\ cursorTab[run.ds] = run.cursorCalls[1]

\* C3 (amended): a run that completes and maps at least one record calls
\* updateCursor exactly once, with the latest source update timestamp of the
\* records it mapped (the fetched records that carry a natural key).
C3_CursorIsLatestMapped ==
    (run.pc = "done" /\ KeyedFetched # {}) =>
        /\ run.cursorCalls = <<Latest({r.updated_at : r \in KeyedFetched})>>
        /\ cursorTab[run.ds] = run.cursorCalls[1]

\* C3 witness: a completed run mapped two records of different timestamps
\* from a full page, asked for the page after it, and wrote the later one.
C3_Witness ==
    /\ run.pc = "done"
    /\ Len(run.requests) = 2
    /\ Cardinality(KeyedFetched) = 2
    /\ FetchedRows[1].updated_at < FetchedRows[2].updated_at
    /\ run.cursorCalls = <<FetchedRows[2].updated_at>>

RECURSIVE StoreAfterPages(_, _)
StoreAfterPages(tab, n) ==
    IF n = 0 THEN tab
    ELSE upsertTickets(StoreAfterPages(tab, n - 1),
                       MapPage(run.ds, run.pages[n]), Null).rows

IsPrefix(p, q) == Len(p) <= Len(q) /\ SubSeq(q, 1, Len(p)) = p

\* A runSync has completed right after a runSync of the same dataset that a
\* failed batch write aborted, the source unchanged since the aborted run began.
RetryDone == run.pc = "done" /\ run.retry /\ run.quiet

\* C11: the retry reads the cursor the aborted run read and fetches the pages
\* the aborted run fetched (and those after them); the ticket table and the
\* cursor it ends with are those of one run that upserts these pages, without
\* a failure, on the table and the cursor the aborted run began with.
C11_RetryEqualsSingleRun ==
    RetryDone =>
        /\ run.cursor = run.orig.cursor
        /\ IsPrefix(run.orig.pages, run.pages)
        /\ store = StoreAfterPages(run.orig.store0, Len(run.pages))
        /\ cursorTab[run.ds] =
              IF KeyedFetched = {} THEN getCursor(run.orig.cursorTab0, run.ds)
              ELSE Latest({r.updated_at : r \in KeyedFetched})
        /\ \A d \in Datasets \ {run.ds} : cursorTab[d] = run.orig.cursorTab0[d]

\* C11 witness: the aborted run had committed a batch before it failed, and
\* the retry wrote what was left.
C11_Witness ==
    /\ RetryDone
    /\ run.store0 # run.orig.store0
    /\ store # run.store0
    /\ Len(run.pages) > 1

\* --------------------------------------------------- claims on fetchWithRetry
\* The outcomes the retry policy names retryable (429, 5xx, network error),
\* and the other failures.
Retryable(out) == out = NetworkError \/ out.status = 429 \/ out.status >= 500

NonRetryable(out) == ~Retryable(out) /\ ~Ok(out.status)

\* The step is one request of the call; Outcome is what it ended in.
Requested == f.pc = "loop" /\ Len(f'.log) = Len(f.log) + 1

Outcome == f'.log[Len(f'.log)]

RECURSIVE Pow2(_)
Pow2(n) == IF n = 0 THEN 1 ELSE 2 * Pow2(n - 1)

\* C12 (as claimed): a response with a non-2xx status that is neither 429 nor
\* 5xx ends the call in failure at once: no wait follows it and no request.
C12_NonRetryableFailsAtOnce ==
    \A n \in 1..Len(f.log) :
        NonRetryable(f.log[n]) =>
            /\ n = Len(f.log)
            /\ Len(f.waits) = n - 1
            /\ f.pc = "thrown"

\* C13 (as claimed): a call all of whose requests failed retryably made at
\* most MAX_RETRIES requests and fails with the error of the last one.
C13_AtMostMaxRetriesRequests ==
    (f.pc = "thrown" /\ \A n \in 1..Len(f.log) : Retryable(f.log[n])) =>
        /\ Len(f.log) <= MAX_RETRIES
        /\ f.error = f.log[Len(f.log)].status

\* C13 (amended): a call all of whose requests failed retryably made exactly
\* MAX_RETRIES + 1 requests (the first attempt and MAX_RETRIES retries) and
\* fails with the error of the last one.
C13_MaxRetriesPlusOneRequests ==
    (f.pc = "thrown" /\ \A n \in 1..Len(f.log) : Retryable(f.log[n])) =>
        /\ Len(f.log) = MAX_RETRIES + 1
        /\ Len(f.waits) = MAX_RETRIES
        /\ f.error = f.log[Len(f.log)].status

\* C13 witness: every request failed retryably, the first on the network, the
\* last with a 503.
C13_Witness ==
    /\ f.pc = "thrown"
    /\ \A n \in 1..Len(f.log) : Retryable(f.log[n])
    /\ f.log[1] = NetworkError
    /\ f.error = 503

\* C14: with attempts left, a request that ends in 429, in a 5xx status or in
\* a network error is followed by a sleep, and the sleep by the next attempt;
\* a request that ends in a 2xx response makes the call return it.
C14_RetryableIsRetried ==
    [][/\ (Requested /\ Retryable(Outcome) /\ f.attempt < MAX_RETRIES) =>
             /\ f'.pc = "sleep"
             /\ Len(f'.waits) = Len(f.waits) + 1
       /\ f.pc = "sleep" =>
             /\ f'.pc = "loop"
             /\ f'.attempt = f.attempt + 1 /\ f'.attempt <= MAX_RETRIES
             /\ f'.log = f.log
       /\ (Requested /\ Ok(Outcome.status)) => f'.pc = "returned"]_vars

\* C14 witness: the call returned the 2xx response of its fourth attempt,
\* after a network error, a 429 and a 503.
C14_Witness ==
    /\ f.pc = "returned"
    /\ Len(f.log) = 4
    /\ f.log[1] = NetworkError /\ f.log[2].status = 429 /\ f.log[3].status = 503

\* C15: in a call where no response carried Retry-After, the wait before the
\* k-th retry is INITIAL_BACKOFF_MS * 2^(k-1).
C15_BackoffDoubles ==
    (\A n \in 1..Len(f.log) : f.log[n].retryAfter = NoHeader) =>
        \A k \in 1..Len(f.waits) : f.waits[k] = INITIAL_BACKOFF_MS * Pow2(k - 1)

\* C15 witness: MAX_RETRIES waits, after status failures and network errors,
\* none with a Retry-After.
C15_Witness ==
    /\ \A n \in 1..Len(f.log) : f.log[n].retryAfter = NoHeader
    /\ Len(f.waits) = MAX_RETRIES
    /\ f.waits[MAX_RETRIES] = 16000
    /\ \E m, n \in 1..Len(f.log) : f.log[m] = NetworkError /\ f.log[n].status = 503

\* C16: with attempts left, the wait after a 429 or 5xx response that carries
\* Retry-After: n is n * 1000 ms, whatever backoff is.
C16_RetryAfterHonoured ==
    [][(/\ Requested /\ f.attempt < MAX_RETRIES
        /\ Outcome.status = 429 \/ Outcome.status >= 500
        /\ Outcome.retryAfter # NoHeader) =>
           /\ f'.pc = "sleep"
           /\ Len(f'.waits) = Len(f.waits) + 1
           /\ \A n \in {0, 2} :
                 Outcome.retryAfter = ToString(n) =>
                     f'.waits[Len(f'.waits)] = n * 1000]_vars

\* C16 witness: Retry-After: 0 on the first response made the first wait 0 ms
\* (backoff 1000), Retry-After: 2 on the third made the third 2000 ms (backoff
\* 4000).
C16_Witness ==
    /\ Len(f.waits) = 3
    /\ f.log[1].retryAfter = "0" /\ f.waits[1] = 0
    /\ f.log[2].retryAfter = NoHeader /\ f.waits[2] = 2000
    /\ f.log[3].retryAfter = "2" /\ f.waits[3] = 2000

\* ------------------------------------------- claims on the page generators
\* The rows of the dataset the generators read, and their number.
Rows == source["pvqr-7yc4"]

Min(a, b) == IF a < b THEN a ELSE b

\* C17: backfillPages requests the offsets 0, PAGE_SIZE, 2 * PAGE_SIZE, ... in
\* :id order, each page being the rows at its offset, and a page of fewer than
\* PAGE_SIZE rows (zero included) is the last one requested.
C17_BackfillOffsets ==
    \A i \in Invocations :
        g[i].mode = "backfill" =>
            /\ \A n \in 1..Len(g[i].requests) :
                  g[i].requests[n] =
                      [dataset |-> "pvqr-7yc4", order |-> ":id",
                       where |-> [op |-> "none", value |-> Null],
                       limit |-> PAGE_SIZE, offset |-> (n - 1) * PAGE_SIZE]
            /\ \A n \in 1..Len(g[i].pages) :
                  /\ g[i].pages[n] =
                        SubSeq(Rows, (n - 1) * PAGE_SIZE + 1,
                               Min(n * PAGE_SIZE, Len(Rows)))
                  /\ Len(g[i].pages[n]) < PAGE_SIZE =>
                        /\ n = Len(g[i].requests)
                        /\ g[i].pc \in {"yielded", "ended"}
            /\ g[i].pc = "ended" =>
                  /\ Len(g[i].requests) = Len(g[i].pages)
                  /\ Len(g[i].pages[Len(g[i].pages)]) < PAGE_SIZE

\* C17 witness: pages of PAGE_SIZE, PAGE_SIZE and fewer rows, three requests,
\* and the generator has ended.
C17_Witness ==
    /\ g[1].mode = "backfill" /\ g[1].pc = "ended"
    /\ Len(g[1].requests) = 3
    /\ Len(g[1].pages[2]) = PAGE_SIZE
    /\ Len(g[1].pages[3]) > 0 /\ Len(g[1].pages[3]) < PAGE_SIZE

\* C18: every request of a runSync carries the filter :updated_at > c, c being
\* the cursor read when the run began; no row fetched has :updated_at <= c;
\* the offsets are 0, PAGE_SIZE, ... and a page of fewer than PAGE_SIZE rows is
\* the last one requested.
C18_StrictlyAfterCursor ==
    run.kind = "sync" =>
        /\ run.cursor = Watermark(run.cursorTab0)
        /\ \A n \in 1..Len(run.requests) :
              run.requests[n] =
                  [dataset |-> run.ds, order |-> ":updated_at",
                   where |-> [op |-> ">", value |-> run.cursor],
                   limit |-> PAGE_SIZE, offset |-> (n - 1) * PAGE_SIZE]
        /\ \A r \in Range(FetchedRows) : r.updated_at > run.cursor
        /\ \A n \in 1..Len(run.pages) :
              Len(run.pages[n]) < PAGE_SIZE => n = Len(run.requests)
        /\ (run.pc \in {"advance", "done"}) =>
              Len(run.pages[Len(run.pages)]) < PAGE_SIZE

\* C18 witness: a completed runSync with a cursor later than the epoch made two
\* requests and left out a row whose :updated_at equals the cursor.
C18_Witness ==
    /\ run.kind = "sync" /\ run.pc = "done"
    /\ run.cursor > Epoch
    /\ Len(run.requests) = 2
    /\ FetchedRows # <<>>
    /\ \E r \in Range(source[run.ds]) : r.updated_at = run.cursor

\* C19: in both generators a delay of DELAY_BETWEEN_PAGES_MS lies between the
\* n-th request and the next one, the n-th page being full; no delay follows
\* a page of fewer than PAGE_SIZE rows.
C19_PoliteDelay ==
    \A i \in Invocations :
        /\ \A k \in 1..Len(g[i].delays) :
              /\ g[i].delays[k] = [after |-> k, ms |-> DELAY_BETWEEN_PAGES_MS]
              /\ Len(g[i].pages[k]) = PAGE_SIZE
        /\ \A n \in 1..(Len(g[i].requests) - 1) : n <= Len(g[i].delays)
        /\ Len(g[i].delays) <= Len(g[i].requests)
        /\ (g[i].pc \in {"yielded", "ended", "failed"}) =>
              Len(g[i].delays) = Len(g[i].requests) - 1

\* C19 witness: a generator that ended after three requests made two delays.
C19_Witness ==
    /\ g[1].pc = "ended"
    /\ Len(g[1].requests) = 3
    /\ Len(g[1].delays) = 2

\* C20: of two invocations with the same parameters the requests and the pages
\* of one are an initial segment of those of the other, however their steps
\* interleave, and equal when both have ended.
C20_InvocationsIndependent ==
    \A i, j \in Invocations :
        (/\ g[i].pc # "idle" /\ g[j].pc # "idle"
         /\ g[i].mode = g[j].mode /\ g[i].cursor = g[j].cursor) =>
            /\ \/ IsPrefix(g[i].requests, g[j].requests)
               \/ IsPrefix(g[j].requests, g[i].requests)
            /\ \/ IsPrefix(g[i].pages, g[j].pages)
               \/ IsPrefix(g[j].pages, g[i].pages)
            /\ (g[i].pc = "ended" /\ g[j].pc = "ended") =>
                  /\ g[i].requests = g[j].requests
                  /\ g[i].pages = g[j].pages

\* C20 witness: two incremental invocations with one cursor under way at the
\* same time, one past its second page, the other past its first.
C20_Witness ==
    /\ g[1].mode = "sync" /\ g[2].mode = "sync"
    /\ g[1].cursor = g[2].cursor
    /\ g[1].pc = "sleep" /\ Len(g[1].requests) = 2
    /\ g[2].pc = "sleep" /\ Len(g[2].requests) = 1

\* C21: when fetchPage throws for the k-th request the generator has failed:
\* the pages before were yielded whole, nothing is yielded for the k-th, no
\* request follows, and no page yielded is empty or short of the rows the
\* source holds at its offset.
C21_FailedFetchYieldsNothing ==
    [][\A i \in Invocations :
          /\ \A n \in 1..Len(g'[i].yielded) :
                /\ g'[i].yielded[n] # <<>>
                /\ g'[i].yielded[n] = fetchPage(g'[i].requests[n])
          /\ g'[i].pc = "failed" =>
                /\ Len(g'[i].yielded) = Len(g'[i].requests) - 1
                /\ \A n \in 1..Len(g'[i].yielded) :
                      Len(g'[i].yielded[n]) = PAGE_SIZE
          /\ g[i].pc = "failed" => g'[i] = g[i]]_vars

\* C21 witness: the third request failed after two pages were yielded.
C21_Witness ==
    /\ g[1].pc = "failed"
    /\ Len(g[1].requests) = 3
    /\ Len(g[1].yielded) = 2

\* ------------------------------------------------- claims on the mapper
\* C30: mapToTicketRow returns no record for a raw record without natural
\* key; the list runBackfill and runSync hand to upsertTickets holds no record
\* without natural key, and no stored row is without it.
C30_KeylessNeverWritten ==
    /\ \A d \in Datasets : \A raw \in Range(source[d]) :
          raw.summons_number = NoKey => mapToTicketRow(d, raw) = <<>>
    /\ run.pc = "page" =>
          \A r \in Range(MapPage(run.ds, run.page)) : r.summons_number # NoKey
    /\ \A r \in store : r.summons_number # NoKey

\* C30 witness: the page in the loop body holds a record without natural key
\* and one with it, and the store already holds a row.
C30_Witness ==
    /\ run.pc = "page"
    /\ \E raw \in Range(run.page) : raw.summons_number = NoKey
    /\ MapPage(run.ds, run.page) # <<>>
    /\ store # {}

\* ------------------------------------------- claims on the cursor store
\* C28: getCursor of a dataset without a cursor row returns the epoch and
\* leaves the dataset one row holding it; calls at the same time, their
\* SELECT and INSERT statements interleaved in any way, all return without
\* error, and the INSERT of a call that comes second changes nothing.
C28_ConcurrentGetCursor ==
    [][\A i \in Callers :
          /\ cur'[i].pc # "thrown"
          /\ (cur[i].pc = "select" /\ cur'[i] # cur[i]) =>
                /\ cursorTab' = cursorTab
                /\ cursorTab[cur[i].ds] # Null =>
                      /\ cur'[i].pc = "returned"
                      /\ cur'[i].result = cursorTab[cur[i].ds]
          /\ (cur[i].pc = "insert" /\ cur'[i] # cur[i]) =>
                /\ cur'[i].pc = "returned"
                /\ cur'[i].result = Epoch
                /\ cursorTab'[cur[i].ds] =
                      IF cursorTab[cur[i].ds] = Null THEN Epoch
                      ELSE cursorTab[cur[i].ds]
                /\ \A e \in Datasets \ {cur[i].ds} :
                      cursorTab'[e] = cursorTab[e]]_vars

\* C28 witness: two getCursor calls for one dataset both found no row, both
\* inserted, both returned the epoch, and the dataset has its row.
C28_Witness ==
    /\ \A i \in Callers :
          /\ cur[i].op = "getCursor" /\ cur[i].pc = "returned"
          /\ cur[i].ds = "pvqr-7yc4"
          /\ cur[i].rows = Null
          /\ cur[i].result = Epoch
    /\ cursorTab["pvqr-7yc4"] = Epoch

\* C29: the statement of updateCursor(d, v) leaves d the watermark v whatever
\* d had before, and leaves the rows of the other datasets and the ticket
\* store as they were.
C29_UpdateCursorFrame ==
    [][\A i \in Callers :
          (cur[i].pc = "idle" /\ cur'[i].op = "updateCursor") =>
              /\ cur'[i].pc = "returned"
              /\ cursorTab'[cur'[i].ds] = cur'[i].arg
              /\ \A e \in Datasets \ {cur'[i].ds} :
                    cursorTab'[e] = cursorTab[e]
              /\ store' = store]_vars

\* C29 witness: updateCursor has moved a watermark back, and the other
\* dataset has a row.
C29_Witness ==
    /\ cur[1].op = "updateCursor" /\ cur[1].pc = "returned"
    /\ cur[1].ds = "pvqr-7yc4"
    /\ cur[1].before = 2 /\ cur[1].arg = 1
    /\ cursorTab["pvqr-7yc4"] = 1
    /\ cursorTab["nc67-uf89"] = 2

\* --------------------------------------------- claims on the scheduler
CyclesInFlight == {n \in 1..Len(sched.cycles) : InFlight(sched.cycles[n])}

Exited == sched.pc = "exited"

\* C22: at no time are two cycles of the scheduler in flight.
C22_OneCycleInFlight == Cardinality(CyclesInFlight) <= 1

\* C23: after a termination signal the process exits only when every cycle
\* that was in flight has returned: no cycle is cut by the exit.
C23_ShutdownWaitsForCycle ==
    (Exited /\ sched.signalled) =>
        \A n \in 1..Len(sched.cycles) : sched.cycles[n].pc # "cut"

\* C24: once shutdown has handled a termination signal the timer is cleared,
\* no cycle starts any more, and the process exits with the pool closed.
C24_ShutdownStopsTimerClosesPool ==
    sched.signalled =>
        /\ ~sched.timer
        /\ \A n \in 1..Len(sched.cycles) : ~sched.cycles[n].afterSignal
        /\ Exited => sched.pool \in {"closed", "none"} /\ sched.exit = "code0"

\* C24 witness: the process has exited through shutdown with a cycle of the
\* timer behind it and the pool, which was open, closed.
C24_Witness ==
    /\ Exited /\ sched.signalled
    /\ sched.pool = "closed"
    /\ Len(sched.cycles) = 2
    /\ sched.cycles[2].kind = "timer" /\ sched.cycles[2].pc = "done"

\* C25: a cycle that has returned has called runSync for every configured
\* dataset, whatever failed in the runSync of another dataset.
C25_FailureIsContained ==
    \A n \in 1..Len(sched.cycles) :
        sched.cycles[n].pc = "done" =>
            sched.cycles[n].called = Range(DatasetOrder)

\* C26: without DATABASE_URL the scheduler sends no HTTP request, ends with
\* the configuration error and runs no cycle after the one that met it.
C26_ConfigErrorIsFatal ==
    ~sched.dbUrl =>
        /\ ~sched.httpSent
        /\ ~sched.timer
        /\ Len(sched.cycles) <= 1
        /\ sched.exit # "code0"

C32_FetchedCountsAllRows ==
    run.pc = "done" => run.totalRows = Len(FetchedRows)

\* C37: the stored row of a natural key never goes back to an older source
\* update timestamp: it carries the greatest one ever written for the key.
C37_NewestWins ==
    [][\A s \in store : \A t \in store' :
          s.summons_number = t.summons_number =>
              t.soda_updated_at >= s.soda_updated_at]_vars

\* C39: whenever the scheduler process has exited, the connection pool it
\* opened is closed.
C39_ExitClosesPool ==
    Exited => sched.pool \in {"closed", "none"}

\* ----------------------------------------- further claims on the writer
RECURSIVE SumSeq(_)
SumSeq(q) == IF q = <<>> THEN 0 ELSE Head(q) + SumSeq(Tail(q))

\* C33: the statements of one upsertTickets call take consecutive batches of
\* 1..BATCH_INSERT_SIZE records that together are the input in its order,
\* every record in one batch; a statement is issued when all statements
\* before it have completed; the call returns the sum of their row counts.
C33_BatchesInOrder ==
    /\ \A n \in 1..Len(w.batches) :
          /\ Len(w.batches[n]) >= 1
          /\ Len(w.batches[n]) <= BATCH_INSERT_SIZE
          /\ n < Len(w.batches) => Len(w.batches[n]) = BATCH_INSERT_SIZE
    /\ IsPrefix(Concat(w.batches), w.rows)
    /\ Len(w.counts) = IF w.pc \in {"stmt", "thrown"}
                       THEN Len(w.batches) - 1 ELSE Len(w.batches)
    /\ w.pc = "returned" =>
          /\ Concat(w.batches) = w.rows
          /\ w.totalInserted = SumSeq(w.counts)

\* C33 witness: a call with more records than one batch holds has returned
\* after two statements that both changed rows.
C33_Witness ==
    /\ w.pc = "returned"
    /\ Len(w.rows) > BATCH_INSERT_SIZE
    /\ Len(w.batches) = 2
    /\ w.counts[1] > 0 /\ w.counts[2] > 0

\* ------------------------------------------- claims on the order of a run
\* The pages received so far that hold a mapped record, each needing a write.
PagesToWrite ==
    {n \in 1..Len(run.pages) : MapPage(run.ds, run.pages[n]) # <<>>}

\* C34: a page is requested only when every page before it has been mapped
\* and written; updateCursor is called once, when the last page has been
\* received and every write has returned without error; an error ends the
\* run as failed, and the failed run has taken no step after the one that
\* failed.
C34_StrictSequence ==
    /\ run.pc = "fetch" => run.upserts = Cardinality(PagesToWrite)
    /\ run.error # "none" <=> run.pc = "failed"
    /\ run.cursorCalls # <<>> =>
          /\ Len(run.cursorCalls) = 1
          /\ run.error \in {"none", "updateCursor"}
          /\ run.upserts = Cardinality(PagesToWrite)
          /\ run.pages # <<>>
          /\ Len(run.pages[Len(run.pages)]) < PAGE_SIZE
    /\ (run.pc = "failed" /\ run.error = "getCursor") =>
          run.requests = <<>> /\ run.upserts = 0 /\ run.cursorCalls = <<>>
    /\ (run.pc = "failed" /\ run.error = "fetch") =>
          /\ Len(run.requests) = Len(run.pages) + 1
          /\ run.upserts = Cardinality(PagesToWrite)
          /\ run.cursorCalls = <<>>
    /\ (run.pc = "failed" /\ run.error = "upsert") =>
          /\ Len(run.requests) = Len(run.pages)
          /\ run.upserts = Cardinality(PagesToWrite)
          /\ run.cursorCalls = <<>>

\* C34 witness: a run has received a full first page, written it, requested
\* the second page after that write, and then called updateCursor.
C34_Witness ==
    /\ run.pc = "done"
    /\ Len(run.requests) = 2
    /\ Len(run.pages[1]) = PAGE_SIZE
    /\ run.upserts = 1
    /\ Len(run.cursorCalls) = 1

\* The pages the run received in which the mapper rejected every record.
RejectedPages ==
    {n \in 1..Len(run.pages) :
        run.pages[n] # <<>> /\ MapPage(run.ds, run.pages[n]) = <<>>}

\* C38: a completed run that received a page of rejected records only went
\* on past it: a full such page is followed by the next page, no write was
\* made for it (one write per page that holds a mapped record), the ticket
\* table holds the upsert of every page in order, and the cursor is the
\* latest timestamp of the mapped records of all pages, those after the
\* rejected page included.
C38_RejectedPageSkipped ==
    (run.pc = "done" /\ RejectedPages # {}) =>
        /\ \A n \in RejectedPages :
              Len(run.pages[n]) = PAGE_SIZE => n < Len(run.pages)
        /\ Len(run.requests) = Len(run.pages)
        /\ Len(run.pages[Len(run.pages)]) < PAGE_SIZE
        /\ run.upserts = Cardinality(PagesToWrite)
        /\ store = StoreAfterPages(run.store0, Len(run.pages))
        /\ run.maxUpdatedAt =
              IF KeyedFetched = {} THEN Null
              ELSE Latest({r.updated_at : r \in KeyedFetched})
        /\ KeyedFetched # {} =>
              /\ run.cursorCalls = <<run.maxUpdatedAt>>
              /\ cursorTab[run.ds] = run.maxUpdatedAt

\* C38 witness: the first page was full and all of it rejected; the record
\* of the second page was written and the cursor advanced to its timestamp.
C38_Witness ==
    /\ run.pc = "done"
    /\ 1 \in RejectedPages /\ Len(run.pages[1]) = PAGE_SIZE
    /\ Len(run.pages) = 2 /\ 2 \in PagesToWrite
    /\ store # run.store0
    /\ run.upserts = 1
    /\ cursorTab[run.ds] = run.pages[2][1].updated_at
    /\ cursorTab[run.ds] # run.cursorTab0[run.ds]

\* ------------------------------- claims on the two runSync implementations
\* The offset of the n-th request of the run: the records of the pages before.
RECURSIVE OffsetOf(_)
OffsetOf(n) == IF n = 1 THEN 0 ELSE OffsetOf(n - 1) + Len(run.pages[n - 1])

KeyedUpTo(t) ==
    {r \in Range(source[run.ds]) :
        /\ r.summons_number # NoKey
        /\ r.updated_at > run.cursor
        /\ r.updated_at <= t}

\* C36: when a runSync has advanced the cursor to a timestamp, the ticket
\* table holds a row for every source row with a natural key whose update
\* timestamp is after the cursor the run read and not after that timestamp.
C36_NoRowSkipped ==
    (run.pc = "done" /\ run.kind = "sync" /\ run.cursorCalls # <<>>) =>
        \A r \in KeyedUpTo(run.cursorCalls[1]) :
            \E t \in store : /\ t.summons_number = r.summons_number
                             /\ t.source_dataset = run.ds

\* ----------------------------------------------------- claims on termination
\* The page requests that a dataset of n matching rows can take: one for
\* every full page and one for the short or empty page that ends it.
MaxRequests(d) == (Len(source[d]) \div PAGE_SIZE) + 1

\* C35: on a source that holds finitely many rows, an invocation of
\* backfillPages or incrementalPages makes no more page requests than the
\* rows take and, once invoked, in the end completes or throws; a run makes
\* no more requests than that either and, once begun, in the end is done or
\* failed.
C35_RunsTerminate ==
    /\ [](\A i \in Invocations :
            g[i].pc # "idle" => Len(g[i].requests) <= MaxRequests(g[i].ds))
    /\ [](run.pc # "idle" => Len(run.requests) <= MaxRequests(run.ds))
    /\ \A i \in Invocations :
          (g[i].pc # "idle") ~> (g[i].pc \in {"ended", "failed"})
    /\ (run.pc \notin {"idle", "done", "failed"}) ~>
          (run.pc \in {"done", "failed"})

\* C35 witness: one invocation of each generator has ended on a source of
\* two full pages and a short one, after the three requests these take.
C35_Witness ==
    /\ g[1].pc = "ended" /\ g[2].pc = "ended"
    /\ g[1].mode = "backfill" /\ g[2].mode = "sync"
    /\ Len(source[g[1].ds]) = 2 * PAGE_SIZE + 1
    /\ Len(g[1].requests) = 3
    /\ Len(g[2].requests) = 3

====
